---- MODULE Spec2Model ----
(***************************************************************************)
(* A model of the UDP transport endpoint of pkg/tcpip/transport/udp        *)
(* (endpoint.go): the endpoint life cycle, its registration with the       *)
(* stack, the receive queue and the send path's implicit bind.             *)
(*                                                                         *)
(* Atomicity.  Bind, Disconnect, Shutdown, Close and the option setters    *)
(* run wholly under e.mu held exclusively, so each is one action.  Connect *)
(* is two actions (register the new identifier; unregister the old one and *)
(* commit) with e.mu held in between (cpc # "idle").  Write is the shared  *)
(* section, the exclusive section of the implicit bind, the shared section *)
(* again and the transmission, with e.mu free in between.  Read,           *)
(* HandlePacket and HandleControlPacket take only e.rcvMu / e.lastErrorMu  *)
(* and may run at any time, also while e.mu is held.  LastError() at the   *)
(* start of Read and Write commutes with every step another thread can     *)
(* take before the following critical section, so it is part of the same   *)
(* action.                                                                 *)
(*                                                                         *)
(* Specifications.  The endpoint's parts multiply, so several environments *)
(* drive the same actions: Spec runs every operation on an IPv4 endpoint   *)
(* with at most one datagram; SpecReg runs the operations that touch the   *)
(* registration (with the reuse flags and both network protocols);         *)
(* SpecRcv runs the receive queue with datagrams of every size on an       *)
(* endpoint whose stack calls all succeed; SpecMc runs the multicast       *)
(* membership options next to the life cycle; SpecPoll runs Readiness      *)
(* with every interest mask; SpecLock runs the lock and unlock calls of    *)
(* the operations, one call at a time, on three threads; SpecWr runs two   *)
(* writers next to Bind, Connect and Close, under fairness; SpecNote runs  *)
(* the receive path with a waiter on the queue; SpecRoute runs Write next  *)
(* to Connect, Disconnect and Close and follows the routes cloned for      *)
(* e.route.                                                                *)
(***************************************************************************)
EXTENDS Integers, Sequences, FiniteSets, Bags, TLC

\* ---------------------------------------------------------------- bounds
\* Datagrams enqueued over one run (each carries its arrival number).
MaxArrivals == 3
\* Largest payload size of an arriving datagram.
MaxPayload == 2
\* Largest receive buffer capacity an endpoint is created with.
MaxRcvBuf == 2
\* Groups the stack lets this endpoint hold at a time.
MaxJoined == 2
\* Arriving datagrams dropped over one run.
MaxDrops == 2
\* Routes cloned for e.route over one run, where they are followed.
MaxRoutes == 2

\* ------------------------------------------------------------ value sets
StateInitial == "INITIAL"
StateBound == "BOUND"
StateConnected == "CONNECTED"
StateClosed == "CLOSED"

IPv4 == "ipv4"
IPv6 == "ipv6"

\* Addresses: "" is the wildcard, LocalV4/LocalV6 are unicast addresses
\* assigned to NIC 1, McastV4 is a multicast group, RemoteV4/RemoteV6 are
\* peers.  NIC 2 owns no address.
AnyAddr == ""
LocalV4 == "L4"
LocalV6 == "L6"
McastV4 == "M4"
RemoteV4 == "R4"
RemoteV6 == "R6"

FullAddress(nic, addr, port) == [NIC |-> nic, Addr |-> addr, Port |-> port]

MostRecent == "MostRecent"
LoadBalanced == "LoadBalanced"
NoFlags == {}

ShutdownRead == "ShutdownRead"
ShutdownWrite == "ShutdownWrite"

NoRoute == [nic |-> 0, LocalAddress |-> "", RemoteAddress |-> ""]
NoError == "nil"
NoTo == FullAddress(0, "none", 0)

ZeroID == [LocalAddress |-> "", LocalPort |-> 0, RemoteAddress |-> "", RemotePort |-> 0]

\* ------------------------------------------------------------- variables
VARIABLES
  netProto,            \* TransportEndpointInfo.NetProto, fixed at creation
  state,               \* e.state
  ID,                  \* TransportEndpointInfo.ID
  BindNICID,           \* TransportEndpointInfo.BindNICID
  RegisterNICID,       \* TransportEndpointInfo.RegisterNICID
  effectiveNetProtos,  \* e.effectiveNetProtos
  route,               \* e.route (NoRoute is nil)
  dstPort,             \* e.dstPort
  portFlags,           \* e.portFlags
  boundPortFlags,      \* e.boundPortFlags
  shutdownFlags,       \* e.shutdownFlags
  rcvReady,            \* e.rcvReady
  rcvClosed,           \* e.rcvClosed
  rcvList,             \* e.rcvList: records [seq, size], head first
  rcvBufSize,          \* e.rcvBufSize
  rcvBufSizeMax,       \* e.rcvBufSizeMax
  lastError,           \* e.lastError
  registry,            \* the stack's transport endpoints of this endpoint (a bag)
  ports,               \* the stack's port reservations of this endpoint (a bag)
  cpc,                 \* position of the thread inside Connect
  clocal,              \* Connect's locals while cpc # "idle"
  wpc,                 \* position of each thread inside Write
  wlocal,              \* Write's locals, for each thread, while wpc # "idle"
  preBound,            \* history: CONNECTED now, and BOUND before it was connected
  nextSeq,             \* arrival number of the last datagram enqueued
  readLog,             \* arrival numbers returned by the successful Reads
  multicastMemberships, \* e.multicastMemberships: a set of [nicID, multicastAddr]
  joined,              \* the groups joined for this endpoint and not left since (a bag)
  calls,               \* the calls the last Close or SetSockOpt made to the stack
  hasWaiter,           \* a waiter is registered with e.waiterQueue
  notified,            \* the event mask of the last Notify that reached the waiter
  wmu,                 \* the hold of each thread inside Write on e.mu
  polled,              \* the Readiness call under way or last made, and its result
  stats,               \* e.stats: PacketsReceived and the ReceiveErrors counters
  routeRefs,           \* the routes cloned for e.route, numbered, and those released
  locks,               \* lock discipline: who holds e.mu, e.rcvMu, e.lastErrorMu
  threads,             \* lock discipline: each thread's operation and position
  ret                  \* what the last completed operation returned

epVars == <<netProto, state, ID, BindNICID, RegisterNICID, effectiveNetProtos,
            route, dstPort, portFlags, boundPortFlags, shutdownFlags>>
rcvVars == <<rcvReady, rcvClosed, rcvList, rcvBufSize, rcvBufSizeMax>>
stackVars == <<registry, ports>>
threadVars == <<cpc, clocal, wpc, wlocal>>
histVars == <<preBound, nextSeq, readLog>>
mcVars == <<multicastMemberships, joined, calls>>
waitVars == <<hasWaiter, notified>>
lockVars == <<locks, threads>>
\* What the operations on the identity and the registration never touch.
sideVars == <<mcVars, waitVars, wmu, lockVars, polled, stats, routeRefs>>
vars == <<epVars, rcvVars, lastError, stackVars, threadVars, histVars, ret, sideVars>>

\* The routes cloned for e.route over the run, numbered from 1 in the order
\* of their cloning: how many there are, which one e.route holds (0 when it
\* is nil) and which have been released.  They are followed only where
\* counted is set.
NoRefs(counted) == [counted |-> counted, cloned |-> 0, stored |-> 0, released |-> {}]

\* e.route = r.Clone(): a new clone takes the place of whatever e.route held.
Clone(refs) ==
  IF refs.counted THEN [refs EXCEPT !.cloned = @ + 1, !.stored = refs.cloned + 1]
  ELSE refs

\* e.route.Release(); e.route = nil.
Release(refs) ==
  IF refs.counted /\ refs.stored # 0
    THEN [refs EXCEPT !.released = @ \cup {refs.stored}, !.stored = 0]
  ELSE refs

NoLocal == [id |-> ZeroID, nicID |-> 0, netProtos |-> {}, oldPortFlags |-> NoFlags,
            port |-> 0, r |-> NoRoute]
NoWrite == [to |-> NoTo, route |-> NoRoute, routeId |-> 0, dstPort |-> 0,
            lockReleased |-> FALSE]

\* The threads that call Write.
Writers == {"w1", "w2"}

Ret(op, err) == [op |-> op, err |-> err]

\* e.mu is free: no thread is inside an exclusive section.  The shared
\* sections of Write are single actions, so no reader is ever parked.
MuFree == cpc = "idle"

\* waiter.EventMask bits.
EventIn == "In"
EventOut == "Out"
EventErr == "Err"
EventHUp == "HUp"

\* e.waiterQueue.Notify(mask): the mask reaches the waiter, if there is one.
Notify(mask) == IF hasWaiter THEN mask ELSE notified

\* e.stats at creation.  The counters of Read and Write are left out: no
\* operation reads them.
NoStats == [PacketsReceived |-> 0, MalformedPacketsReceived |-> 0, ChecksumErrors |-> 0,
            ClosedReceiver |-> 0, ReceiveBufferOverflow |-> 0]

\* No Readiness call has been made.
NoPoll == [pc |-> "none", mask |-> {}, result |-> {}]

\* The hold of the thread inside Write on e.mu (a sync.RWMutex): what it
\* holds, and whether it has locked what it held or unlocked what it did not.
Unheld == [held |-> "none", fault |-> FALSE]
MuRLock(m) == IF m.held = "none" THEN [m EXCEPT !.held = "shared"]
              ELSE [m EXCEPT !.fault = TRUE]
MuRUnlock(m) == IF m.held = "shared" THEN [m EXCEPT !.held = "none"]
                ELSE [m EXCEPT !.fault = TRUE]
MuLock(m) == IF m.held = "none" THEN [m EXCEPT !.held = "exclusive"]
             ELSE [m EXCEPT !.fault = TRUE]
MuUnlock(m) == IF m.held = "exclusive" THEN [m EXCEPT !.held = "none"]
               ELSE [m EXCEPT !.fault = TRUE]

\* The lock discipline is followed by threads that run the operations' lock
\* and unlock calls one at a time.
Threads == {"t1", "t2", "t3"}
NoLocks == [muWriter |-> "none", muReaders |-> {}, muWaiting |-> {},
            rcvMu |-> "none", lastErrorMu |-> "none"]
NoThreads == [t \in Threads |-> [op |-> "idle", pos |-> 0]]

\* ------------------------------------------------- the stack (collaborator)
\* ops.GetV6Only(): the option's default; its setter is outside the model.
V6Only == FALSE

AddrFamily(a) == IF a \in {LocalV6, RemoteV6} THEN IPv6
                 ELSE IF a = AnyAddr THEN netProto ELSE IPv4

\* TransportEndpointInfo.AddrNetProtoLocked: the canonical address and the
\* effective network protocol.  On a dual-stack endpoint a v4 address stands
\* for its v4-mapped form, which is unwrapped.
AddrNetProtoLocked(addr, v6only) ==
  LET fam == AddrFamily(addr.Addr)
      loc == ID.LocalAddress
      err == IF loc # AnyAddr /\ addr.Addr # AnyAddr /\ AddrFamily(loc) = IPv4 /\ fam = IPv6
               THEN "ErrInvalidEndpointState"
             ELSE IF loc # AnyAddr /\ addr.Addr # AnyAddr /\ AddrFamily(loc) = IPv6 /\ fam = IPv4
               THEN "ErrNetworkUnreachable"
             ELSE IF fam = netProto THEN NoError
             ELSE IF fam = IPv4 /\ netProto = IPv6
               THEN (IF v6only THEN "ErrNoRoute" ELSE NoError)
             ELSE "ErrInvalidEndpointState"
  IN [addr |-> addr, netProto |-> fam, err |-> err]

checkV4MappedLocked(addr) == AddrNetProtoLocked(addr, V6Only)

isBroadcastOrMulticast(addr) == addr = McastV4

\* stack.CheckLocalAddress: the NIC that owns addr, or 0.
CheckLocalAddress(nic, proto, addr) ==
  IF addr \in {LocalV4, LocalV6} /\ AddrFamily(addr) = proto /\ nic \in {0, 1}
    THEN 1 ELSE 0

\* stack.FindRoute, when it finds a route.
FindRoute(nicID, localAddr, remoteAddr, proto) ==
  [nic |-> IF nicID = 0 THEN 1 ELSE nicID,
   LocalAddress |-> IF localAddr # AnyAddr THEN localAddr
                    ELSE IF proto = IPv4 THEN LocalV4 ELSE LocalV6,
   RemoteAddress |-> remoteAddr]

\* One copy of an element of exact, else of loose, leaves the bag.
RemoveOne(bag, exact, loose) ==
  LET have == BagToSet(bag)
  IN IF exact \cap have # {} THEN bag (-) SetToBag({CHOOSE x \in exact \cap have : TRUE})
     ELSE IF loose \cap have # {} THEN bag (-) SetToBag({CHOOSE x \in loose \cap have : TRUE})
     ELSE bag

AllFlags == SUBSET {MostRecent, LoadBalanced}

RegEntry(nic, proto, id, flags) == [nic |-> nic, netProto |-> proto, id |-> id, flags |-> flags]

\* stack.RegisterTransportEndpoint, when it succeeds: one entry per protocol.
RegisterTransportEndpoint(reg, nic, protos, id, flags) ==
  reg (+) SetToBag({RegEntry(nic, p, id, flags) : p \in protos})

UnregisterProto(reg, nic, proto, id, flags) ==
  IF proto = "none" THEN reg
  ELSE RemoveOne(reg, {RegEntry(nic, proto, id, flags)},
                 {RegEntry(nic, proto, id, f) : f \in AllFlags})

\* stack.UnregisterTransportEndpoint: the endpoint leaves the demuxer under
\* (nic, id) for each protocol, whatever flags the caller passes.
UnregisterTransportEndpoint(reg, nic, protos, id, flags) ==
  UnregisterProto(
    UnregisterProto(reg, nic, IF IPv4 \in protos THEN IPv4 ELSE "none", id, flags),
    nic, IF IPv6 \in protos THEN IPv6 ELSE "none", id, flags)

PortRes(proto, addr, port, flags) == [netProto |-> proto, addr |-> addr, port |-> port, flags |-> flags]

\* The port stack.ReservePort returns: the one asked for, or one it picks.
PickPort(port) == IF port = 0 THEN 7 ELSE port

\* stack.ReservePort, when it succeeds.
ReservePort(res, protos, addr, port, flags) ==
  res (+) SetToBag({PortRes(p, addr, port, flags) : p \in protos})

ReleaseProto(res, proto, addr, port, flags) ==
  IF proto = "none" THEN res
  ELSE RemoveOne(res, {PortRes(proto, addr, port, flags)},
                 {PortRes(proto, addr, port, f) : f \in AllFlags})

\* stack.ReleasePort.
ReleasePort(res, protos, addr, port, flags) ==
  ReleaseProto(
    ReleaseProto(res, IF IPv4 \in protos THEN IPv4 ELSE "none", addr, port, flags),
    IF IPv6 \in protos THEN IPv6 ELSE "none", addr, port, flags)

\* multicastMembership{nicID, multicastAddr}.
multicastMembership(nic, addr) == [nicID |-> nic, multicastAddr |-> addr]

\* stack.JoinGroup and stack.LeaveGroup when they succeed; a call that fails
\* leaves the groups as they are.  LeaveGroups leaves several groups.
JoinGroup(groups, mem) == groups (+) SetToBag({mem})
LeaveGroup(groups, mem) == groups (-) SetToBag({mem})
LeaveGroups(groups, mems) == groups (-) SetToBag(mems)

\* A call to the stack as the model records it: its name and, for a call
\* about a group, the group.
NoMembership == multicastMembership(0, "")
StackCall(name, mem) == [call |-> name, mem |-> mem]
Calls(op, made) == [op |-> op, made |-> made]

\* ------------------------------------------------------- registration facade
\* registerWithStack: resOk and regOk are the stack's answers to ReservePort
\* and RegisterTransportEndpoint.  The result carries the identifier, the
\* error and the fields the call leaves behind.  reg0 is the registry the call
\* starts from.
registerWithStackFrom(reg0, nicID, netProtos, id, resOk, regOk) ==
  LET reserve == ID.LocalPort = 0
      id1 == IF reserve THEN [id EXCEPT !.LocalPort = PickPort(id.LocalPort)] ELSE id
      ports1 == IF reserve
                  THEN ReservePort(ports, netProtos, id.LocalAddress, id1.LocalPort, portFlags)
                  ELSE ports
  IN IF reserve /\ ~resOk
       THEN [id |-> id, err |-> "ErrPortInUse", registry |-> reg0,
             ports |-> ports, boundPortFlags |-> boundPortFlags]
     ELSE IF regOk
       THEN [id |-> id1, err |-> NoError,
             registry |-> RegisterTransportEndpoint(reg0, nicID, netProtos, id1, portFlags),
             ports |-> ports1, boundPortFlags |-> portFlags]
     ELSE [id |-> id1, err |-> "ErrPortInUse", registry |-> reg0,
           ports |-> ReleasePort(ports1, netProtos, id1.LocalAddress, id1.LocalPort, portFlags),
           boundPortFlags |-> NoFlags]

\* A variant that takes the old registration out before it registers.
registerWithStack_UnregisterFirst(nicID, netProtos, id, resOk, regOk) ==
  registerWithStackFrom(
    UnregisterTransportEndpoint(registry, RegisterNICID, effectiveNetProtos, ID, boundPortFlags),
    nicID, netProtos, id, resOk, regOk)

registerWithStack(nicID, netProtos, id, resOk, regOk) ==
  registerWithStackFrom(registry, nicID, netProtos, id, resOk, regOk)

\* A variant without the state check.
BindAllowed_Always == TRUE

\* bindLocked's first check: binding is allowed in the initial state only.
BindAllowed == state = StateInitial

\* bindLocked: the values the call leaves in the fields it may write.
bindLocked(addr, resOk, regOk) ==
  LET keep == [err |-> NoError, ID |-> ID, RegisterNICID |-> RegisterNICID,
               effectiveNetProtos |-> effectiveNetProtos, state |-> state,
               rcvReady |-> rcvReady, registry |-> registry, ports |-> ports,
               boundPortFlags |-> boundPortFlags]
      c == checkV4MappedLocked(addr)
      netProtos == IF c.netProto = IPv6 /\ ~V6Only /\ c.addr.Addr = AnyAddr
                     THEN {IPv6, IPv4} ELSE {c.netProto}
      unicast == c.addr.Addr # AnyAddr /\ ~isBroadcastOrMulticast(c.addr.Addr)
      nicID == IF unicast THEN CheckLocalAddress(c.addr.NIC, c.netProto, c.addr.Addr)
               ELSE c.addr.NIC
      reg == registerWithStack(nicID, netProtos,
               [ZeroID EXCEPT !.LocalPort = c.addr.Port, !.LocalAddress = c.addr.Addr],
               resOk, regOk)
  IN IF ~BindAllowed THEN [keep EXCEPT !.err = "ErrInvalidEndpointState"]
     ELSE IF c.err # NoError THEN [keep EXCEPT !.err = c.err]
     ELSE IF unicast /\ nicID = 0 THEN [keep EXCEPT !.err = "ErrBadLocalAddress"]
     ELSE IF reg.err # NoError
       THEN [keep EXCEPT !.err = reg.err, !.registry = reg.registry,
                         !.ports = reg.ports, !.boundPortFlags = reg.boundPortFlags]
     ELSE [err |-> NoError, ID |-> reg.id, RegisterNICID |-> nicID,
           effectiveNetProtos |-> netProtos, state |-> StateBound,
           rcvReady |-> TRUE, registry |-> reg.registry, ports |-> reg.ports,
           boundPortFlags |-> reg.boundPortFlags]

\* ------------------------------------------------------------------ Init
\* newEndpoint: the state after construction.  The receive capacity is the
\* stack's default, which is configuration.
Init ==
  /\ netProto \in {IPv4, IPv6}
  /\ state = StateInitial
  /\ ID = ZeroID
  /\ BindNICID = 0
  /\ RegisterNICID = 0
  /\ effectiveNetProtos = {}
  /\ route = NoRoute
  /\ dstPort = 0
  /\ portFlags = NoFlags
  /\ boundPortFlags = NoFlags
  /\ shutdownFlags = {}
  /\ rcvReady = FALSE
  /\ rcvClosed = FALSE
  /\ rcvList = <<>>
  /\ rcvBufSize = 0
  /\ rcvBufSizeMax \in 1..MaxRcvBuf
  /\ lastError = NoError
  /\ registry = EmptyBag
  /\ ports = EmptyBag
  /\ cpc = "idle"
  /\ clocal = NoLocal
  /\ wpc = [w \in Writers |-> "idle"]
  /\ wlocal = [w \in Writers |-> NoWrite]
  /\ preBound = FALSE
  /\ nextSeq = 0
  /\ readLog = <<>>
  /\ multicastMemberships = {}
  /\ joined = EmptyBag
  /\ calls = Calls("none", {})
  /\ hasWaiter \in BOOLEAN
  /\ notified = {}
  /\ wmu = [w \in Writers |-> Unheld]
  /\ polled = NoPoll
  /\ stats = NoStats
  /\ routeRefs \in {NoRefs(counted) : counted \in BOOLEAN}
  /\ locks = NoLocks
  /\ threads = NoThreads
  /\ ret = Ret("none", NoError)

\* ------------------------------------------------------------------ Bind
Bind(addr, resOk, regOk) ==
  /\ MuFree
  /\ LET b == bindLocked(addr, resOk, regOk)
     IN /\ ID' = b.ID
        /\ RegisterNICID' = b.RegisterNICID
        /\ effectiveNetProtos' = b.effectiveNetProtos
        /\ state' = b.state
        /\ rcvReady' = b.rcvReady
        /\ registry' = b.registry
        /\ ports' = b.ports
        /\ boundPortFlags' = b.boundPortFlags
        /\ BindNICID' = IF b.err = NoError THEN b.RegisterNICID ELSE BindNICID
        /\ ret' = Ret("Bind", b.err)
  /\ UNCHANGED <<netProto, route, dstPort, portFlags, shutdownFlags, rcvClosed, rcvList,
                 rcvBufSize, rcvBufSizeMax, lastError, threadVars, histVars, sideVars>>


\* ---------------------------------------------------------------- Connect
\* connectRoute: the local address a route is looked up with.  Multicast
\* destinations are not among the inputs, so the configured multicast
\* interface plays no part.
connectRoute(nicID, addr, proto) ==
  LET localAddr == IF isBroadcastOrMulticast(ID.LocalAddress) THEN AnyAddr
                   ELSE ID.LocalAddress
  IN FindRoute(nicID, localAddr, addr.Addr, proto)

\* Connect up to and including registerWithStack (endpoint.go:962-1028).
\* routeOk, resOk and regOk are the stack's answers.
ConnectRegister(addr, routeOk, resOk, regOk) ==
  LET bound == state \in {StateBound, StateConnected}
      localPort == IF bound THEN ID.LocalPort ELSE 0
      nicConflict == bound /\ BindNICID # 0 /\ addr.NIC # 0 /\ addr.NIC # BindNICID
      nicID == IF bound /\ BindNICID # 0 THEN BindNICID ELSE addr.NIC
      c == checkV4MappedLocked(addr)
      r == connectRoute(nicID, c.addr, c.netProto)
      id == [LocalAddress |-> IF state = StateInitial THEN r.LocalAddress ELSE ID.LocalAddress,
             LocalPort |-> localPort,
             RemotePort |-> addr.Port,
             RemoteAddress |-> r.RemoteAddress]
      netProtos == IF c.netProto = IPv6 /\ ~V6Only THEN {IPv4, IPv6} ELSE {c.netProto}
      reg == registerWithStack(nicID, netProtos, id, resOk, regOk)
      fail(err) == /\ ret' = Ret("Connect", err)
                   /\ UNCHANGED <<epVars, rcvVars, lastError, stackVars, threadVars,
                                  histVars>>
  IN /\ cpc = "idle"
     /\ routeRefs.counted => routeRefs.cloned < MaxRoutes
     /\ IF addr.Port = 0 THEN fail("ErrInvalidEndpointState")
        ELSE IF state = StateClosed \/ nicConflict THEN fail("ErrInvalidEndpointState")
        ELSE IF c.err # NoError THEN fail(c.err)
        ELSE IF ~routeOk THEN fail("ErrNoRoute")
        ELSE IF reg.err # NoError
          THEN /\ ret' = Ret("Connect", reg.err)
               /\ ports' = reg.ports
               /\ boundPortFlags' = reg.boundPortFlags
               /\ UNCHANGED <<netProto, state, ID, BindNICID, RegisterNICID,
                              effectiveNetProtos, route, dstPort, portFlags, shutdownFlags,
                              rcvVars, lastError, registry, threadVars, histVars>>
        ELSE /\ registry' = reg.registry
             /\ ports' = reg.ports
             /\ boundPortFlags' = reg.boundPortFlags
             /\ cpc' = "connect_commit"
             /\ clocal' = [id |-> reg.id, nicID |-> nicID, netProtos |-> netProtos,
                           oldPortFlags |-> boundPortFlags, port |-> addr.Port, r |-> r]
             /\ UNCHANGED <<netProto, state, ID, BindNICID, RegisterNICID,
                            effectiveNetProtos, route, dstPort, portFlags, shutdownFlags,
                            rcvVars, lastError, wpc, wlocal, histVars, ret>>
     /\ UNCHANGED sideVars

\* Connect after registerWithStack succeeded (endpoint.go:1030-1048): the old
\* registration goes, the new identity is committed.  regAfter is the
\* registry and readyAfter the value of rcvReady the step leaves.
ConnectCommitSets(regAfter, readyAfter) ==
  /\ cpc = "connect_commit"
  /\ registry' = regAfter
  /\ ID' = clocal.id
  /\ route' = clocal.r
  /\ dstPort' = clocal.port
  /\ RegisterNICID' = clocal.nicID
  /\ effectiveNetProtos' = clocal.netProtos
  /\ state' = StateConnected
  /\ rcvReady' = readyAfter
  /\ cpc' = "idle"
  /\ clocal' = NoLocal
  /\ preBound' = (state = StateBound \/ (state = StateConnected /\ preBound))
  /\ ret' = Ret("Connect", NoError)
  /\ routeRefs' = Clone(routeRefs)
  /\ UNCHANGED <<netProto, BindNICID, portFlags, boundPortFlags, shutdownFlags, rcvClosed,
                 rcvList, rcvBufSize, rcvBufSizeMax, lastError, ports, wpc, wlocal,
                 nextSeq, readLog, mcVars, waitVars, wmu, lockVars, polled, stats>>

\* The registry once the old registration is removed.
OldUnregistered ==
  IF ID.LocalPort # 0
    THEN UnregisterTransportEndpoint(registry, RegisterNICID, effectiveNetProtos, ID,
                                     clocal.oldPortFlags)
    ELSE registry

\* A variant that keeps the old registration.
ConnectCommit_KeepOld == ConnectCommitSets(registry, TRUE)

\* A variant that leaves rcvReady as it was.
ConnectCommit_KeepReady == ConnectCommitSets(OldUnregistered, rcvReady)

ConnectCommit == ConnectCommitSets(OldUnregistered, TRUE)

\* ------------------------------------------------------------- Disconnect
Disconnect(regOk) ==
  LET id == [ZeroID EXCEPT !.LocalPort = ID.LocalPort, !.LocalAddress = ID.LocalAddress]
      reg == registerWithStack(RegisterNICID, effectiveNetProtos, id, TRUE, regOk)
      rebind == BindNICID # 0 \/ ID.LocalAddress = AnyAddr
  IN /\ MuFree
     /\ IF state # StateConnected
          THEN /\ ret' = Ret("Disconnect", NoError)
               /\ UNCHANGED <<epVars, rcvVars, lastError, stackVars, threadVars,
                              histVars>>
        ELSE IF rebind
          THEN IF reg.err # NoError
                 THEN /\ ret' = Ret("Disconnect", reg.err)
                      /\ ports' = reg.ports
                      /\ boundPortFlags' = reg.boundPortFlags
                      /\ UNCHANGED <<netProto, state, ID, BindNICID, RegisterNICID,
                                     effectiveNetProtos, route, dstPort, portFlags,
                                     shutdownFlags, rcvVars, lastError, registry,
                                     threadVars, histVars>>
               ELSE /\ state' = StateBound
                    /\ boundPortFlags' = reg.boundPortFlags
                    /\ ports' = reg.ports
                    /\ registry' = UnregisterTransportEndpoint(reg.registry, RegisterNICID,
                                     effectiveNetProtos, ID, reg.boundPortFlags)
                    /\ ID' = reg.id
                    /\ route' = NoRoute
                    /\ dstPort' = 0
                    /\ preBound' = FALSE
                    /\ ret' = Ret("Disconnect", NoError)
                    /\ UNCHANGED <<netProto, BindNICID, RegisterNICID, effectiveNetProtos,
                                   portFlags, shutdownFlags, rcvVars, lastError,
                                   threadVars, nextSeq, readLog>>
        ELSE /\ ports' = IF ID.LocalPort # 0
                           THEN ReleasePort(ports, effectiveNetProtos, ID.LocalAddress,
                                            ID.LocalPort, boundPortFlags)
                           ELSE ports
             /\ boundPortFlags' = IF ID.LocalPort # 0 THEN NoFlags ELSE boundPortFlags
             /\ state' = StateInitial
             /\ registry' = UnregisterTransportEndpoint(registry, RegisterNICID,
                              effectiveNetProtos, ID, boundPortFlags)
             /\ ID' = ZeroID
             /\ route' = NoRoute
             /\ dstPort' = 0
             /\ preBound' = FALSE
             /\ ret' = Ret("Disconnect", NoError)
             /\ UNCHANGED <<netProto, BindNICID, RegisterNICID, effectiveNetProtos,
                            portFlags, shutdownFlags, rcvVars, lastError, threadVars,
                            nextSeq, readLog>>
     /\ routeRefs' = IF state = StateConnected /\ (rebind => reg.err = NoError)
                       THEN Release(routeRefs) ELSE routeRefs
     /\ UNCHANGED <<mcVars, waitVars, wmu, lockVars, polled, stats>>

\* --------------------------------------------------------------- Shutdown
\* A variant that records the flags before it looks at the state.
Shutdown_FlagsFirst(flags) ==
  /\ MuFree
  /\ shutdownFlags' = shutdownFlags \cup flags
  /\ rcvClosed' = IF ShutdownRead \in flags THEN TRUE ELSE rcvClosed
  /\ notified' = IF ShutdownRead \in flags /\ ~rcvClosed THEN Notify({EventIn})
                  ELSE notified
  /\ ret' = Ret("Shutdown", IF state # StateBound /\ state # StateConnected
                              THEN "ErrNotConnected" ELSE NoError)
  /\ UNCHANGED <<netProto, state, ID, BindNICID, RegisterNICID, effectiveNetProtos, route,
                 dstPort, portFlags, boundPortFlags, rcvReady, rcvList, rcvBufSize,
                 rcvBufSizeMax, lastError, stackVars, threadVars, histVars,
                 mcVars, hasWaiter, wmu, lockVars, polled, stats, routeRefs>>

Shutdown(flags) ==
  /\ MuFree
  /\ IF state # StateBound /\ state # StateConnected
       THEN /\ ret' = Ret("Shutdown", "ErrNotConnected")
            /\ UNCHANGED <<shutdownFlags, rcvClosed, notified>>
       ELSE /\ shutdownFlags' = shutdownFlags \cup flags
            /\ rcvClosed' = IF ShutdownRead \in flags THEN TRUE ELSE rcvClosed
            /\ notified' = IF ShutdownRead \in flags /\ ~rcvClosed THEN Notify({EventIn})
                            ELSE notified
            /\ ret' = Ret("Shutdown", NoError)
  /\ UNCHANGED <<netProto, state, ID, BindNICID, RegisterNICID, effectiveNetProtos, route,
                 dstPort, portFlags, boundPortFlags, rcvReady, rcvList, rcvBufSize,
                 rcvBufSizeMax, lastError, stackVars, threadVars, histVars,
                 mcVars, hasWaiter, wmu, lockVars, polled, stats, routeRefs>>

\* ------------------------------------------------------------------ Close
\* A variant that takes every state for a registered one.
CloseRegistered_Always == TRUE

\* Close's switch on the state: the endpoint is registered with the stack.
CloseRegistered == state \in {StateBound, StateConnected}

\* Close returns nothing, so ret keeps the last result.  routeAfter is the
\* route and sizeAfter the byte count the call leaves.  LeaveGroup is called
\* for every membership and its result is dropped: left are the memberships
\* whose call succeeded.
CloseSets(routeAfter, sizeAfter) ==
  LET registered == CloseRegistered
  IN /\ MuFree
     /\ \E left \in SUBSET multicastMemberships : joined' = LeaveGroups(joined, left)
     /\ multicastMemberships' = {}
     /\ calls' = Calls("Close",
                       (IF registered
                          THEN {StackCall("UnregisterTransportEndpoint", NoMembership),
                                StackCall("ReleasePort", NoMembership)}
                          ELSE {})
                       \cup {StackCall("LeaveGroup", mem) : mem \in multicastMemberships})
     /\ notified' = Notify({EventHUp, EventErr, EventIn, EventOut})
     /\ shutdownFlags' = {ShutdownRead, ShutdownWrite}
     /\ registry' = IF registered
                      THEN UnregisterTransportEndpoint(registry, RegisterNICID,
                             effectiveNetProtos, ID, boundPortFlags)
                      ELSE registry
     /\ ports' = IF registered
                   THEN ReleasePort(ports, effectiveNetProtos, ID.LocalAddress,
                                    ID.LocalPort, boundPortFlags)
                   ELSE ports
     /\ boundPortFlags' = IF registered THEN NoFlags ELSE boundPortFlags
     /\ rcvClosed' = TRUE
     /\ rcvBufSize' = sizeAfter
     /\ rcvList' = <<>>
     /\ route' = routeAfter
     /\ routeRefs' = IF routeAfter = NoRoute THEN Release(routeRefs) ELSE routeRefs
     /\ state' = StateClosed
     /\ preBound' = FALSE
     /\ UNCHANGED <<netProto, ID, BindNICID, RegisterNICID, effectiveNetProtos, dstPort,
                    portFlags, rcvReady, rcvBufSizeMax, lastError, threadVars, nextSeq,
                    readLog, ret, hasWaiter, wmu, lockVars, polled, stats>>

\* A variant that does not release the route.
Close_KeepRoute == CloseSets(route, 0)

\* A variant that drains the queue and keeps its byte count.
Close_KeepSize == CloseSets(NoRoute, rcvBufSize)

Close == CloseSets(NoRoute, 0)

\* --------------------------------------------------- reuse-address / -port
SetFlag(flags, f, v) == IF v THEN flags \cup {f} ELSE flags \ {f}

OnReuseAddressSet(v) ==
  /\ MuFree
  /\ portFlags' = SetFlag(portFlags, MostRecent, v)
  /\ UNCHANGED <<netProto, state, ID, BindNICID, RegisterNICID, effectiveNetProtos, route,
                 dstPort, boundPortFlags, shutdownFlags, rcvVars, lastError, stackVars,
                 threadVars, histVars, ret, sideVars>>

OnReusePortSet(v) ==
  /\ MuFree
  /\ portFlags' = SetFlag(portFlags, LoadBalanced, v)
  /\ UNCHANGED <<netProto, state, ID, BindNICID, RegisterNICID, effectiveNetProtos, route,
                 dstPort, boundPortFlags, shutdownFlags, rcvVars, lastError, stackVars,
                 threadVars, histVars, ret, sideVars>>

\* ------------------------------------------------------------------- Read
\* LastError: the slot is read and cleared.
LastError == lastError

\* A variant that leaves the error in the slot.
LastErrorCleared_Kept == lastError

\* The slot once LastError has read it.
LastErrorCleared == NoError

\* Read (endpoint.go:281-328).  listOnError is the receive list a call that
\* returns the pending error leaves.
ReadSets(listOnError) ==
  /\ IF LastError # NoError
       THEN /\ ret' = Ret("Read", LastError)
            /\ lastError' = LastErrorCleared
            /\ rcvList' = listOnError
            /\ UNCHANGED <<epVars, rcvReady, rcvClosed, rcvBufSize, rcvBufSizeMax,
                           stackVars, threadVars, histVars>>
     ELSE IF rcvList = <<>>
       THEN /\ ret' = Ret("Read", IF rcvClosed THEN "ErrClosedForReceive"
                                  ELSE "ErrWouldBlock")
            /\ UNCHANGED <<epVars, rcvVars, lastError, stackVars, threadVars, histVars>>
     ELSE /\ rcvList' = Tail(rcvList)
          /\ rcvBufSize' = rcvBufSize - Head(rcvList).size
          /\ readLog' = Append(readLog, Head(rcvList).seq)
          /\ ret' = Ret("Read", NoError)
          /\ UNCHANGED <<epVars, rcvReady, rcvClosed, rcvBufSizeMax, lastError, stackVars,
                         threadVars, preBound, nextSeq>>
  /\ UNCHANGED sideVars

\* A variant whose error return drops the datagram at the head.
Read_ErrorDropsHead == ReadSets(IF rcvList = <<>> THEN rcvList ELSE Tail(rcvList))

Read == ReadSets(rcvList)

\* ----------------------------------------------------------- HandlePacket
\* A variant that compares with > where the code has >=.
BufferFull_Above == rcvBufSize > rcvBufSizeMax

\* The capacity gate: the byte count before the datagram has reached the capacity.
BufferFull == rcvBufSize >= rcvBufSizeMax

\* A variant that looks at rcvReady only.
ReceiverClosed_ReadyOnly == ~rcvReady

\* The receiver gate: the endpoint is not ready to receive, or closed for it.
ReceiverClosed == ~rcvReady \/ rcvClosed

\* A variant that puts the datagram at the head.
PushBack_Front(list, p) == <<p>> \o list

\* rcvList.PushBack.
PushBack(list, p) == Append(list, p)

\* The datagrams dropped so far, for any reason.
Dropped ==
  stats.MalformedPacketsReceived + stats.ChecksumErrors + stats.ClosedReceiver
  + stats.ReceiveBufferOverflow

Increment(s, counter) == [s EXCEPT ![counter] = @ + 1]

\* A variant that counts a datagram dropped for capacity as one dropped by a
\* closed receiver.
OverflowCounted_AsClosed(s) == Increment(s, "ClosedReceiver")

\* e.stats.ReceiveErrors.ReceiveBufferOverflow.Increment().
OverflowCounted(s) == Increment(s, "ReceiveBufferOverflow")

\* hdrLen is the payload length the UDP header declares, dataLen the bytes
\* that arrived, xsumOk the outcome of verifyChecksum.
HandlePacket(hdrLen, dataLen, xsumOk) ==
  LET valid == Increment(stats, "PacketsReceived")
      drop(s) == /\ Dropped < MaxDrops
                 /\ stats' = s
                 /\ UNCHANGED <<rcvList, rcvBufSize, nextSeq, notified>>
  IN /\ IF hdrLen > dataLen THEN drop(Increment(stats, "MalformedPacketsReceived"))
        ELSE IF ~xsumOk THEN drop(Increment(stats, "ChecksumErrors"))
        ELSE IF ReceiverClosed THEN drop(Increment(valid, "ClosedReceiver"))
        ELSE IF BufferFull THEN drop(OverflowCounted(valid))
        ELSE /\ nextSeq < MaxArrivals
             /\ rcvList' = PushBack(rcvList, [seq |-> nextSeq + 1, size |-> hdrLen])
             /\ rcvBufSize' = rcvBufSize + hdrLen
             /\ nextSeq' = nextSeq + 1
             /\ stats' = valid
             /\ notified' = IF rcvBufSize = 0 THEN Notify({EventIn}) ELSE notified
     /\ UNCHANGED <<epVars, rcvReady, rcvClosed, rcvBufSizeMax, lastError, stackVars,
                    threadVars, preBound, readLog, ret, mcVars, hasWaiter, wmu, lockVars,
                    polled, routeRefs>>

\* ---------------------------------------------------- HandleControlPacket
HandleControlPacket(typ) ==
  /\ lastError' = IF typ = "ControlPortUnreachable" /\ state = StateConnected
                    THEN "ErrConnectionRefused" ELSE lastError
  /\ notified' = IF typ = "ControlPortUnreachable" /\ state = StateConnected
                   THEN Notify({EventErr}) ELSE notified
  /\ UNCHANGED <<epVars, rcvVars, stackVars, threadVars, histVars, ret,
                 mcVars, hasWaiter, wmu, lockVars, polled, stats, routeRefs>>

\* ------------------------------------------------------------------ Write
\* write from prepareForWrite to the release of the shared lock
\* (endpoint.go:450-531), run with e.mu held shared: where the call goes next
\* ("upgrade": prepareForWrite found INITIAL; "send": the lock is released and
\* the datagram goes out; "done": an error is returned) and what it carries.
\* routeOk is the stack's answer to FindRoute, preErr the outcome of the
\* broadcast, link resolution and payload size checks.
writeLocked(to, routeOk, preErr) ==
  LET out(next, err, r, port) == [next |-> next, err |-> err, route |-> r, dstPort |-> port]
      nicID == IF BindNICID # 0 THEN BindNICID ELSE to.NIC
      c == checkV4MappedLocked(to)
      r == IF to = NoTo THEN route ELSE connectRoute(nicID, c.addr, c.netProto)
      port == IF to = NoTo THEN dstPort ELSE to.Port
  IN IF state = StateInitial THEN out("upgrade", NoError, NoRoute, 0)
     ELSE IF state = StateClosed THEN out("done", "ErrInvalidEndpointState", NoRoute, 0)
     ELSE IF state = StateBound /\ to = NoTo
       THEN out("done", "ErrDestinationRequired", NoRoute, 0)
     ELSE IF to # NoTo /\ BindNICID # 0 /\ to.NIC # 0 /\ to.NIC # BindNICID
       THEN out("done", "ErrNoRoute", NoRoute, 0)
     ELSE IF to # NoTo /\ to.Port = 0 THEN out("done", "ErrInvalidEndpointState", NoRoute, 0)
     ELSE IF to # NoTo /\ c.err # NoError THEN out("done", c.err, NoRoute, 0)
     ELSE IF to # NoTo /\ ~routeOk THEN out("done", "ErrNoRoute", NoRoute, 0)
     ELSE IF preErr # NoError THEN out("done", preErr, NoRoute, 0)
     ELSE out("send", NoError, r, port)

\* A variant whose deferred function releases the lock unconditionally.
writeDeferred_Always(m, lockReleased) == MuRUnlock(m)

\* write's deferred function: the shared lock is released on return unless
\* the call has released it already.
writeDeferred(m, lockReleased) == IF lockReleased THEN m ELSE MuRUnlock(m)

\* Where write goes after prepareForWrite and the checks that follow it, with
\* the shared lock m held: an error returns through the deferred function,
\* the upgrade and the transmission release the lock themselves.
WriteGo(t, to, w, m) ==
  /\ wpc' = [wpc EXCEPT ![t] = IF w.next = "done" THEN "idle" ELSE w.next]
  /\ wlocal' = [wlocal EXCEPT ![t] =
                  IF w.next = "done" THEN NoWrite
                  ELSE [to |-> to, route |-> w.route,
                        routeId |-> IF to = NoTo THEN routeRefs.stored ELSE 0,
                        dstPort |-> w.dstPort, lockReleased |-> w.next = "send"]]
  /\ wmu' = [wmu EXCEPT ![t] = IF w.next = "done" THEN writeDeferred(m, FALSE)
                                ELSE MuRUnlock(m)]
  /\ ret' = IF w.next = "done" THEN Ret("Write", w.err) ELSE ret

\* A variant that never finds the endpoint shut down.
ClosedForSend_Never == FALSE

\* e.shutdownFlags&tcpip.ShutdownWrite != 0.
ClosedForSend == ShutdownWrite \in shutdownFlags

\* write from its start to the first release of e.mu (endpoint.go:423-459),
\* run by thread t.
WriteBegin(t, to, more, routeOk, preErr) ==
  /\ wpc[t] = "idle"
  /\ IF LastError # NoError
       THEN /\ ret' = Ret("Write", LastError)
            /\ lastError' = LastErrorCleared
            /\ UNCHANGED <<wpc, wlocal, wmu>>
     ELSE IF more
       THEN /\ ret' = Ret("Write", "ErrInvalidOptionValue")
            /\ UNCHANGED <<lastError, wpc, wlocal, wmu>>
     ELSE /\ MuFree
          /\ UNCHANGED lastError
          /\ IF ClosedForSend
               THEN /\ ret' = Ret("Write", "ErrClosedForSend")
                    /\ wmu' = [wmu EXCEPT ![t] = writeDeferred(MuRLock(@), FALSE)]
                    /\ UNCHANGED <<wpc, wlocal>>
               ELSE WriteGo(t, to, writeLocked(to, routeOk, preErr), MuRLock(wmu[t]))
  /\ UNCHANGED <<epVars, rcvVars, stackVars, cpc, clocal, histVars,
                 mcVars, waitVars, lockVars, polled, stats, routeRefs>>

\* A variant that never finds the state changed.
StateChanged_Never == FALSE

\* prepareForWrite's second look at the state, with e.mu held exclusively:
\* the state changed while the lock was released.
StateChanged == state # StateInitial

\* prepareForWrite with e.mu held exclusively (endpoint.go:351-368).  Its
\* deferred calls release the exclusive lock and take the shared one again;
\* the thread may wait there, so on the way back into the loop that RLock is
\* the first step of WriteRetry.  When the bind fails write returns at once.
WriteUpgrade(t, resOk, regOk) ==
  LET b == bindLocked(FullAddress(0, AnyAddr, 0), resOk, regOk)
      m == MuUnlock(MuLock(wmu[t]))
  IN /\ wpc[t] = "upgrade"
     /\ MuFree
     /\ IF StateChanged
          THEN /\ wpc' = [wpc EXCEPT ![t] = "retry"]
               /\ wmu' = [wmu EXCEPT ![t] = m]
               /\ UNCHANGED <<epVars, rcvVars, stackVars, wlocal, ret>>
          ELSE /\ ID' = b.ID
               /\ RegisterNICID' = b.RegisterNICID
               /\ effectiveNetProtos' = b.effectiveNetProtos
               /\ state' = b.state
               /\ rcvReady' = b.rcvReady
               /\ registry' = b.registry
               /\ ports' = b.ports
               /\ boundPortFlags' = b.boundPortFlags
               /\ wpc' = [wpc EXCEPT ![t] = IF b.err = NoError THEN "retry" ELSE "idle"]
               /\ wlocal' = [wlocal EXCEPT ![t] = IF b.err = NoError THEN @ ELSE NoWrite]
               /\ ret' = IF b.err = NoError THEN ret ELSE Ret("Write", b.err)
               /\ wmu' = [wmu EXCEPT ![t] = IF b.err = NoError THEN m
                                             ELSE writeDeferred(MuRLock(m), FALSE)]
               /\ UNCHANGED <<netProto, BindNICID, route, dstPort, portFlags, shutdownFlags,
                              rcvClosed, rcvList, rcvBufSize, rcvBufSizeMax>>
     /\ UNCHANGED <<lastError, cpc, clocal, histVars, mcVars, waitVars, lockVars, polled,
                    stats, routeRefs>>

\* The loop of write comes back to prepareForWrite with e.mu held shared.
WriteRetry(t, routeOk, preErr) ==
  /\ wpc[t] = "retry"
  /\ MuFree
  /\ WriteGo(t, wlocal[t].to, writeLocked(wlocal[t].to, routeOk, preErr), MuRLock(wmu[t]))
  /\ UNCHANGED <<epVars, rcvVars, lastError, stackVars, cpc, clocal, histVars,
                 mcVars, waitVars, lockVars, polled, stats, routeRefs>>

\* sendUDP, with e.mu released: sendErr is what route.WritePacket returns.
WriteSend(t, sendErr) ==
  /\ wpc[t] = "send"
  /\ wpc' = [wpc EXCEPT ![t] = "idle"]
  /\ wlocal' = [wlocal EXCEPT ![t] = NoWrite]
  /\ wmu' = [wmu EXCEPT ![t] = writeDeferred(@, wlocal[t].lockReleased)]
  /\ ret' = Ret("Write", sendErr)
  /\ UNCHANGED <<epVars, rcvVars, lastError, stackVars, cpc, clocal, histVars,
                 mcVars, waitVars, lockVars, polled, stats, routeRefs>>

\* -------------------------------------------------------------- Readiness
\* A variant that reports the endpoint writable whatever the mask.
ReadinessOut_Unmasked(mask) == {EventOut}

\* The endpoint is always writable: waiter.EventOut & mask.
ReadinessOut(mask) == {EventOut} \cap mask

\* Readiness up to the release of e.rcvMu: the writable bit, and the readable
\* bit if it is asked for and the list is non-empty or the queue is closed.
ReadinessBegin(mask) ==
  /\ polled.pc # "err"
  /\ polled' = [pc |-> "err", mask |-> mask,
                result |-> ReadinessOut(mask)
                           \cup IF EventIn \in mask /\ (rcvList # <<>> \/ rcvClosed)
                                  THEN {EventIn} ELSE {}]
  /\ UNCHANGED <<epVars, rcvVars, lastError, stackVars, threadVars, histVars, ret,
                 mcVars, waitVars, wmu, lockVars, stats, routeRefs>>

\* Readiness from e.lastErrorMu to its return: the error bit.
ReadinessEnd ==
  /\ polled.pc = "err"
  /\ polled' = [polled EXCEPT !.pc = "done",
                              !.result = @ \cup IF lastError # NoError THEN {EventErr}
                                                ELSE {}]
  /\ UNCHANGED <<epVars, rcvVars, lastError, stackVars, threadVars, histVars, ret,
                 mcVars, waitVars, wmu, lockVars, stats, routeRefs>>

\* ------------------------------------------------------------- SetSockOpt
\* header.IPv4Any: the all-zeros interface address of an ip_mreqn.
IPv4Any == "0.0.0.0"

\* header.IsV4MulticastAddress || header.IsV6MulticastAddress.
IsMulticastAddress(addr) == addr = McastV4

\* The NIC a membership option names.  unset: the option's interface address
\* counts as not set; routeOk: FindRoute finds a route to the group.
membershipNIC(v, unset, routeOk) ==
  IF unset
    THEN IF v.NIC = 0 /\ routeOk
           THEN FindRoute(0, AnyAddr, v.MulticastAddr, IPv4).nic
           ELSE v.NIC
    ELSE CheckLocalAddress(v.NIC, netProto, v.InterfaceAddr)

\* What a membership option leaves outside the membership set.
MembershipFrame ==
  UNCHANGED <<epVars, rcvVars, lastError, stackVars, threadVars, histVars, waitVars, wmu,
              lockVars, polled, stats, routeRefs>>

\* SetSockOpt(*tcpip.AddMembershipOption); joinOk is JoinGroup's answer.
AddMembership(v, routeOk, joinOk) ==
  LET nicID == membershipNIC(v, v.InterfaceAddr \in {AnyAddr, IPv4Any}, routeOk)
      memToInsert == multicastMembership(nicID, v.MulticastAddr)
      fail(err) == /\ ret' = Ret("AddMembership", err)
                   /\ calls' = Calls("AddMembership", {})
                   /\ UNCHANGED <<multicastMemberships, joined>>
  IN /\ IF ~IsMulticastAddress(v.MulticastAddr) THEN fail("ErrInvalidOptionValue")
        ELSE IF nicID = 0 THEN fail("ErrUnknownDevice")
        ELSE /\ MuFree
             /\ IF memToInsert \in multicastMemberships THEN fail("ErrPortInUse")
                ELSE IF ~joinOk
                  THEN /\ ret' = Ret("AddMembership", "ErrUnknownNICID")
                       /\ calls' = Calls("AddMembership", {StackCall("JoinGroup", memToInsert)})
                       /\ UNCHANGED <<multicastMemberships, joined>>
                ELSE /\ joined' = JoinGroup(joined, memToInsert)
                     /\ multicastMemberships' = multicastMemberships \cup {memToInsert}
                     /\ calls' = Calls("AddMembership", {StackCall("JoinGroup", memToInsert)})
                     /\ ret' = Ret("AddMembership", NoError)
     /\ MembershipFrame

\* What RemoveMembership does with its set once the stack has answered:
\* failed tells whether LeaveGroup returned an error.
AfterLeaveGroup_Always(failed, mem) == multicastMemberships \ {mem}

AfterLeaveGroup(failed, mem) ==
  IF failed THEN multicastMemberships ELSE multicastMemberships \ {mem}

\* SetSockOpt(*tcpip.RemoveMembershipOption); leaveOk is LeaveGroup's answer.
RemoveMembership(v, routeOk, leaveOk) ==
  LET nicID == membershipNIC(v, v.InterfaceAddr = IPv4Any, routeOk)
      memToRemove == multicastMembership(nicID, v.MulticastAddr)
      fail(err) == /\ ret' = Ret("RemoveMembership", err)
                   /\ calls' = Calls("RemoveMembership", {})
                   /\ UNCHANGED <<multicastMemberships, joined>>
  IN /\ IF ~IsMulticastAddress(v.MulticastAddr) THEN fail("ErrInvalidOptionValue")
        ELSE IF nicID = 0 THEN fail("ErrUnknownDevice")
        ELSE /\ MuFree
             /\ IF memToRemove \notin multicastMemberships THEN fail("ErrBadLocalAddress")
                ELSE /\ joined' = IF leaveOk THEN LeaveGroup(joined, memToRemove) ELSE joined
                     /\ multicastMemberships' = AfterLeaveGroup(~leaveOk, memToRemove)
                     /\ calls' = Calls("RemoveMembership",
                                       {StackCall("LeaveGroup", memToRemove)})
                     /\ ret' = Ret("RemoveMembership",
                                   IF leaveOk THEN NoError ELSE "ErrUnknownNICID")
     /\ MembershipFrame

\* ------------------------------------------------------------------- Next
\* The inputs.  The stack's answers to one call are drawn together: a failed
\* route lookup or port reservation ends the call, so the later answers are
\* then never asked for.
BOOL == {TRUE, FALSE}
BindInputs == {FullAddress(0, AnyAddr, 0), FullAddress(0, LocalV4, 5),
               FullAddress(2, LocalV4, 5), FullAddress(0, McastV4, 5)}
ConnectInputs == {FullAddress(0, RemoteV4, 9), FullAddress(0, RemoteV6, 9),
                  FullAddress(2, RemoteV4, 9), FullAddress(0, RemoteV4, 0)}
WriteInputs == {NoTo, FullAddress(0, RemoteV4, 9), FullAddress(1, RemoteV4, 0)}
StackAnswers == {[routeOk |-> TRUE, resOk |-> TRUE, regOk |-> TRUE],
                 [routeOk |-> FALSE, resOk |-> TRUE, regOk |-> TRUE],
                 [routeOk |-> TRUE, resOk |-> FALSE, regOk |-> TRUE],
                 [routeOk |-> TRUE, resOk |-> TRUE, regOk |-> FALSE]}
BindAnswers == {a \in StackAnswers : a.routeOk}
WriteAnswers == {[more |-> FALSE, routeOk |-> TRUE, preErr |-> NoError],
                 [more |-> TRUE, routeOk |-> TRUE, preErr |-> NoError],
                 [more |-> FALSE, routeOk |-> FALSE, preErr |-> NoError],
                 [more |-> FALSE, routeOk |-> TRUE, preErr |-> "ErrMessageTooLong"]}
SendErrors == {NoError, "ErrNoBufferSpace"}
ShutdownInputs == {{ShutdownRead}, {ShutdownWrite}, {ShutdownRead, ShutdownWrite}}
ControlTypes == {"ControlPortUnreachable", "ControlPacketTooBig"}
\* Datagrams: every well-formed payload size, one whose header declares more
\* than arrived, one that carries more than its header declares (it is cut to
\* the declared length), one with a bad checksum.
PacketInputs == {[hdrLen |-> n, dataLen |-> n, xsumOk |-> TRUE] : n \in 0..MaxPayload}
                \cup {[hdrLen |-> 1, dataLen |-> 0, xsumOk |-> TRUE],
                      [hdrLen |-> 1, dataLen |-> 2, xsumOk |-> TRUE],
                      [hdrLen |-> 1, dataLen |-> 1, xsumOk |-> FALSE]}

BindStep == \E addr \in BindInputs, a \in BindAnswers : Bind(addr, a.resOk, a.regOk)
ConnectRegisterStep ==
  \E addr \in ConnectInputs, a \in StackAnswers :
    ConnectRegister(addr, a.routeOk, a.resOk, a.regOk)
DisconnectStep == \E regOk \in BOOL : Disconnect(regOk)
ShutdownStep == \E flags \in ShutdownInputs : Shutdown(flags)
OnReuseAddressSetStep == \E v \in BOOL : OnReuseAddressSet(v)
OnReusePortSetStep == \E v \in BOOL : OnReusePortSet(v)
HandlePacketStep == \E p \in PacketInputs : HandlePacket(p.hdrLen, p.dataLen, p.xsumOk)
HandleControlPacketStep == \E typ \in ControlTypes : HandleControlPacket(typ)
\* The steps of one writer, and of any.
OneWriter == "w1"
WriteBeginStep ==
  \E to \in WriteInputs, a \in WriteAnswers :
    WriteBegin(OneWriter, to, a.more, a.routeOk, a.preErr)
WriteUpgradeStep == \E a \in BindAnswers : WriteUpgrade(OneWriter, a.resOk, a.regOk)
WriteRetryStep == \E a \in WriteAnswers : WriteRetry(OneWriter, a.routeOk, a.preErr)
WriteSendStep == \E sendErr \in SendErrors : WriteSend(OneWriter, sendErr)
WriteBeginAny(w) ==
  \E to \in WriteInputs, a \in WriteAnswers : WriteBegin(w, to, a.more, a.routeOk, a.preErr)
WriteUpgradeAny(w) == \E a \in BindAnswers : WriteUpgrade(w, a.resOk, a.regOk)
WriteRetryAny(w) == \E a \in WriteAnswers : WriteRetry(w, a.routeOk, a.preErr)
WriteSendAny(w) == \E sendErr \in SendErrors : WriteSend(w, sendErr)
\* Every interest mask.
EventMasks == SUBSET {EventIn, EventOut, EventErr, EventHUp}
ReadinessBeginStep == \E mask \in EventMasks : ReadinessBegin(mask)
\* Membership options: a group on NIC 1 or NIC 2 with the interface address
\* all zeros, a group with no NIC named (a route decides), a group named by
\* the address of NIC 1, one with the Go zero value for the interface
\* address, and an address that is no group.
MembershipOption(nic, ifAddr, group) ==
  [NIC |-> nic, InterfaceAddr |-> ifAddr, MulticastAddr |-> group]
MembershipInputs == {MembershipOption(1, IPv4Any, McastV4),
                     MembershipOption(2, IPv4Any, McastV4),
                     MembershipOption(0, IPv4Any, McastV4),
                     MembershipOption(0, LocalV4, McastV4),
                     MembershipOption(1, AnyAddr, McastV4),
                     MembershipOption(1, IPv4Any, RemoteV4)}
\* FindRoute is asked only when no NIC is named.
RouteAnswers(v) == IF v.NIC = 0 THEN BOOL ELSE {TRUE}
AddMembershipStep ==
  \E v \in MembershipInputs :
    \E routeOk \in RouteAnswers(v) :
      \E joinOk \in IF BagCardinality(joined) < MaxJoined THEN BOOL ELSE {FALSE} :
        AddMembership(v, routeOk, joinOk)
RemoveMembershipStep ==
  \E v \in MembershipInputs :
    \E routeOk \in RouteAnswers(v), leaveOk \in BOOL :
      RemoveMembership(v, routeOk, leaveOk)

\* Every operation but the reuse flags' setters, on an IPv4 endpoint that
\* receives at most one datagram, which arrives while the receiver is open.
HandlePacketPlain == nextSeq = 0 /\ ~ReceiverClosed /\ HandlePacket(1, 1, TRUE)

InitV4 ==
  Init /\ netProto = IPv4 /\ rcvBufSizeMax = MaxRcvBuf /\ ~hasWaiter /\ ~routeRefs.counted

Next ==
  \/ BindStep
  \/ ConnectRegisterStep
  \/ ConnectCommit
  \/ DisconnectStep
  \/ ShutdownStep
  \/ Close
  \/ Read
  \/ HandlePacketPlain
  \/ HandleControlPacketStep
  \/ WriteBeginStep
  \/ WriteUpgradeStep
  \/ WriteRetryStep
  \/ WriteSendStep

Spec == InitV4 /\ [][Next]_vars

\* The stored route: a connected endpoint is written to without a
\* destination while it is connected again, disconnected and closed, and
\* the routes cloned for e.route are followed.
InitRoute ==
  Init /\ netProto = IPv4 /\ rcvBufSizeMax = MaxRcvBuf /\ ~hasWaiter /\ routeRefs.counted

NextRoute ==
  \/ BindStep
  \/ ConnectRegisterStep
  \/ ConnectCommit
  \/ DisconnectStep
  \/ Close
  \/ WriteBeginStep
  \/ WriteUpgradeStep
  \/ WriteRetryStep
  \/ WriteSendStep

SpecRoute == InitRoute /\ [][NextRoute]_vars

\* The operations that touch the registration, with the reuse flags, on an
\* endpoint of either network protocol.
InitReg ==
  Init /\ rcvBufSizeMax = MaxRcvBuf /\ ~hasWaiter /\ ~routeRefs.counted

NextReg ==
  \/ BindStep
  \/ ConnectRegisterStep
  \/ ConnectCommit
  \/ DisconnectStep
  \/ ShutdownStep
  \/ Close
  \/ OnReuseAddressSetStep
  \/ OnReusePortSetStep

SpecReg == InitReg /\ [][NextReg]_vars

\* The receive queue: datagrams of every size arrive and are read while the
\* endpoint goes through its life cycle with a stack whose calls succeed.
BindPlain == Bind(FullAddress(0, AnyAddr, 5), TRUE, TRUE)
ConnectPlain == ConnectRegister(FullAddress(0, RemoteV4, 9), TRUE, TRUE, TRUE)
DisconnectPlain == Disconnect(TRUE)

InitRcv ==
  Init /\ netProto = IPv4 /\ ~hasWaiter /\ ~routeRefs.counted

NextRcv ==
  \/ BindPlain
  \/ ConnectPlain
  \/ ConnectCommit
  \/ DisconnectPlain
  \/ ShutdownStep
  \/ Close
  \/ Read
  \/ HandlePacketStep
  \/ HandleControlPacketStep

SpecRcv == InitRcv /\ [][NextRcv]_vars

\* Close and the multicast memberships: an endpoint of either network
\* protocol, with a waiter on its queue, is bound, connected, disconnected
\* and closed while groups are joined and left and one datagram arrives.
InitMc ==
  Init /\ rcvBufSizeMax = MaxRcvBuf /\ hasWaiter /\ ~routeRefs.counted

NextMc ==
  \/ BindStep
  \/ ConnectRegisterStep
  \/ ConnectCommit
  \/ DisconnectStep
  \/ Close
  \/ AddMembershipStep
  \/ RemoveMembershipStep
  \/ HandlePacketPlain

SpecMc == InitMc /\ [][NextMc]_vars

\* Readiness: every mask is polled on a connected endpoint that receives a
\* datagram and a port-unreachable signal, is read, shut down and closed.
InitPoll ==
  Init /\ netProto = IPv4 /\ rcvBufSizeMax = MaxRcvBuf /\ ~hasWaiter /\ ~routeRefs.counted

NextPoll ==
  \/ ConnectPlain
  \/ ConnectCommit
  \/ HandlePacketPlain
  \/ HandleControlPacketStep
  \/ Read
  \/ ShutdownStep
  \/ Close
  \/ ReadinessBeginStep
  \/ ReadinessEnd

SpecPoll == InitPoll /\ [][NextPoll]_vars

\* Notification: datagrams of every size and control signals arrive at a
\* connected endpoint with a waiter on its queue, and are read.
InitNote ==
  Init /\ netProto = IPv4 /\ rcvBufSizeMax = MaxRcvBuf /\ hasWaiter /\ ~routeRefs.counted

NextNote ==
  \/ ConnectPlain
  \/ ConnectCommit
  \/ HandlePacketStep
  \/ HandleControlPacketStep
  \/ Read

SpecNote == InitNote /\ [][NextNote]_vars

\* The implicit bind: two threads write while others bind, connect and close
\* an IPv4 endpoint; nothing disconnects it.  A thread inside Write or
\* Connect keeps running, and e.mu (a sync.RWMutex) lets no waiter starve:
\* a step that waits for e.mu is taken if it is enabled again and again.
NextWr ==
  \/ BindStep
  \/ ConnectRegisterStep
  \/ ConnectCommit
  \/ Close
  \/ \E w \in Writers : WriteBeginAny(w)
  \/ \E w \in Writers : WriteUpgradeAny(w)
  \/ \E w \in Writers : WriteRetryAny(w)
  \/ \E w \in Writers : WriteSendAny(w)

FairWr ==
  /\ WF_vars(ConnectCommit)
  /\ \A w \in Writers :
       /\ SF_vars(WriteUpgradeAny(w))
       /\ SF_vars(WriteRetryAny(w))
       /\ WF_vars(WriteSendAny(w))

SpecWr == InitV4 /\ [][NextWr]_vars /\ FairWr

\* ------------------------------------------------------- lock discipline
\* The lock and unlock calls of each operation, in program order, on the
\* path that makes the most calls; a deferred call stands where it runs.
\* The calls of setEndpointState stand among them, as Store calls, and so do
\* the reads and writes of e.rcvBufSizeMax.
LockCall(act, lock) == [act |-> act, lock |-> lock]
setEndpointState == LockCall("Store", "state")
LoadRcvBufSizeMax == LockCall("Load", "rcvBufSizeMax")
StoreRcvBufSizeMax == LockCall("Store", "rcvBufSizeMax")

\* LastError: e.lastErrorMu.  Read and write start with it and return after
\* it when an error is pending; HandleControlPacket takes the same lock.
LastErrorLocks == <<LockCall("Lock", "lastErrorMu"), LockCall("Unlock", "lastErrorMu")>>

\* A variant that reads the state under e.mu held shared.
HandleControlPacketLocks_Shared ==
  <<LockCall("RLock", "mu")>> \o LastErrorLocks \o <<LockCall("RUnlock", "mu")>>

\* HandleControlPacket: the state is read with an atomic load, the error is
\* stored under e.lastErrorMu.
HandleControlPacketLocks == LastErrorLocks

\* An operation wholly under e.mu held exclusively (the option setters,
\* Shutdown without the read flag).
ExclusiveLocks == <<LockCall("Lock", "mu"), LockCall("Unlock", "mu")>>

\* An operation wholly under e.mu held shared (the option getters,
\* GetLocalAddress, GetRemoteAddress, Info).
SharedLocks == <<LockCall("RLock", "mu"), LockCall("RUnlock", "mu")>>

\* A section under e.rcvMu alone (the receive-queue-size option; the writes
\* of rcvReady and rcvClosed inside other operations).
ReceiveLocks == <<LockCall("Lock", "rcvMu"), LockCall("Unlock", "rcvMu")>>

\* HandlePacket, when the receiver is open: the capacity is read under
\* e.rcvMu.
HandlePacketLocks ==
  <<LockCall("Lock", "rcvMu"), LoadRcvBufSizeMax, LockCall("Unlock", "rcvMu")>>

\* GetSockOptInt(ReceiveBufferSizeOption): the capacity is read under e.rcvMu.
GetReceiveBufferSizeLocks ==
  <<LockCall("Lock", "rcvMu"), LoadRcvBufSizeMax, LockCall("Unlock", "rcvMu")>>

\* SetSockOptInt(ReceiveBufferSizeOption): the capacity is written under e.mu.
SetReceiveBufferSizeLocks ==
  <<LockCall("Lock", "mu"), StoreRcvBufSizeMax, LockCall("Unlock", "mu")>>

\* A variant that takes the locks of Shutdown the other way round.
ShutdownLocks_RcvFirst ==
  <<LockCall("Lock", "rcvMu"), LockCall("Lock", "mu"),
    LockCall("Unlock", "mu"), LockCall("Unlock", "rcvMu")>>

\* Shutdown with the read flag: e.rcvMu inside e.mu.
ShutdownLocks ==
  <<LockCall("Lock", "mu"), LockCall("Lock", "rcvMu"),
    LockCall("Unlock", "rcvMu"), LockCall("Unlock", "mu")>>

\* Close: the state is set after the queue is closed under e.rcvMu.
CloseLocks ==
  <<LockCall("Lock", "mu")>> \o ReceiveLocks
  \o <<setEndpointState, LockCall("Unlock", "mu")>>

\* Disconnect: the state is set to BOUND or to INITIAL.
DisconnectLocks == <<LockCall("Lock", "mu"), setEndpointState, LockCall("Unlock", "mu")>>

\* Connect: the state is set, then rcvReady under e.rcvMu.
ConnectLocks ==
  <<LockCall("Lock", "mu"), setEndpointState>> \o ReceiveLocks
  \o <<LockCall("Unlock", "mu")>>

\* bindLocked, entered with e.mu held: the state is set, then rcvReady under
\* e.rcvMu.
bindLockedLocks == <<setEndpointState>> \o ReceiveLocks

\* Bind: bindLocked under e.mu.
BindLocks == <<LockCall("Lock", "mu")>> \o bindLockedLocks \o <<LockCall("Unlock", "mu")>>

\* Read past LastError: e.rcvMu.
ReadLocks == LastErrorLocks \o ReceiveLocks

\* Readiness: e.rcvMu, then e.lastErrorMu, one after the other.
ReadinessLocks == ReceiveLocks \o LastErrorLocks

\* A variant that binds under the shared lock it is entered with.
prepareForWriteLocks_Shared(bind) == IF bind THEN bindLockedLocks ELSE <<>>

\* prepareForWrite on an INITIAL endpoint, entered with e.mu held shared:
\* RUnlock, Lock, bindLocked (when the state is still INITIAL), and the
\* deferred Unlock and RLock.
prepareForWriteLocks(bind) ==
  <<LockCall("RUnlock", "mu"), LockCall("Lock", "mu")>>
  \o (IF bind THEN bindLockedLocks ELSE <<>>)
  \o <<LockCall("Unlock", "mu"), LockCall("RLock", "mu")>>

\* write: LastError, RLock, prepareForWrite, and one RUnlock.
writeLocks(upgrade, bind) ==
  LastErrorLocks \o <<LockCall("RLock", "mu")>>
  \o (IF upgrade THEN prepareForWriteLocks(bind) ELSE <<>>)
  \o <<LockCall("RUnlock", "mu")>>

\* write whose transmission comes back into the endpoint on the same thread
\* (loopback): sendUDP runs after the last RUnlock, and the receive path's
\* calls follow inside it.
writeLoopbackLocks(reentry) == writeLocks(FALSE, FALSE) \o reentry

Operations ==
  {"LastError", "HandleControlPacket", "Disconnect", "SetSockOpt", "GetSockOpt",
   "HandlePacket", "Shutdown", "Close", "Connect", "Bind", "Read", "Readiness",
   "Write", "WriteRetry", "WriteBind", "GetReceiveQueueSize", "GetReceiveBufferSize",
   "SetReceiveBufferSize", "WriteLoopbackPacket", "WriteLoopbackControl"}

LockScript(op) ==
  CASE op = "LastError" -> LastErrorLocks
    [] op = "HandleControlPacket" -> HandleControlPacketLocks
    [] op = "WriteLoopbackPacket" -> writeLoopbackLocks(HandlePacketLocks)
    [] op = "WriteLoopbackControl" -> writeLoopbackLocks(HandleControlPacketLocks)
    [] op = "SetSockOpt" -> ExclusiveLocks
    [] op = "Disconnect" -> DisconnectLocks
    [] op = "GetSockOpt" -> SharedLocks
    [] op = "GetReceiveQueueSize" -> ReceiveLocks
    [] op = "HandlePacket" -> HandlePacketLocks
    [] op = "GetReceiveBufferSize" -> GetReceiveBufferSizeLocks
    [] op = "SetReceiveBufferSize" -> SetReceiveBufferSizeLocks
    [] op = "Shutdown" -> ShutdownLocks
    [] op = "Close" -> CloseLocks
    [] op = "Connect" -> ConnectLocks
    [] op = "Bind" -> BindLocks
    [] op = "Read" -> ReadLocks
    [] op = "Readiness" -> ReadinessLocks
    [] op = "Write" -> writeLocks(FALSE, FALSE)
    [] op = "WriteRetry" -> writeLocks(TRUE, FALSE)
    [] op = "WriteBind" -> writeLocks(TRUE, TRUE)

Running(t) == threads[t].op # "idle"
NextCall(t) == LockScript(threads[t].op)[threads[t].pos]

\* The locks thread t holds.
Holds(t) ==
  (IF locks.muWriter = t \/ t \in locks.muReaders THEN {"mu"} ELSE {})
  \cup (IF locks.rcvMu = t THEN {"rcvMu"} ELSE {})
  \cup (IF locks.lastErrorMu = t THEN {"lastErrorMu"} ELSE {})

\* sync.Mutex and sync.RWMutex: a Lock waits for the holders to leave, and
\* an RLock waits while a writer holds the lock or waits for it.
Acquirable(c) ==
  CASE c.act = "Lock" /\ c.lock = "mu" -> locks.muWriter = "none" /\ locks.muReaders = {}
    [] c.act = "RLock" -> locks.muWriter = "none" /\ locks.muWaiting = {}
    [] c.act = "Lock" /\ c.lock = "rcvMu" -> locks.rcvMu = "none"
    [] c.act = "Lock" /\ c.lock = "lastErrorMu" -> locks.lastErrorMu = "none"
    [] OTHER -> TRUE

Acquired(t, c) ==
  CASE c.act = "Lock" /\ c.lock = "mu" ->
         [locks EXCEPT !.muWriter = t, !.muWaiting = @ \ {t}]
    [] c.act = "Unlock" /\ c.lock = "mu" -> [locks EXCEPT !.muWriter = "none"]
    [] c.act = "RLock" -> [locks EXCEPT !.muReaders = @ \cup {t}]
    [] c.act = "RUnlock" -> [locks EXCEPT !.muReaders = @ \ {t}]
    [] c.act = "Lock" /\ c.lock = "rcvMu" -> [locks EXCEPT !.rcvMu = t]
    [] c.act = "Unlock" /\ c.lock = "rcvMu" -> [locks EXCEPT !.rcvMu = "none"]
    [] c.act = "Lock" /\ c.lock = "lastErrorMu" -> [locks EXCEPT !.lastErrorMu = t]
    [] c.act = "Unlock" /\ c.lock = "lastErrorMu" -> [locks EXCEPT !.lastErrorMu = "none"]
    [] c.act \in {"Load", "Store"} -> locks

LockFrame ==
  UNCHANGED <<epVars, rcvVars, lastError, stackVars, threadVars, histVars, ret,
              mcVars, waitVars, wmu, polled, stats, routeRefs>>

\* A thread enters an operation.
StartOp(t, op) ==
  /\ ~Running(t)
  /\ threads' = [threads EXCEPT ![t] = [op |-> op, pos |-> 1]]
  /\ UNCHANGED locks
  /\ LockFrame

\* A thread makes its next lock or unlock call; after the last one the
\* operation returns.
LockStep(t) ==
  /\ Running(t)
  /\ Acquirable(NextCall(t))
  /\ locks' = Acquired(t, NextCall(t))
  /\ threads' = [threads EXCEPT ![t] =
                   IF @.pos = Len(LockScript(@.op)) THEN [op |-> "idle", pos |-> 0]
                   ELSE [@ EXCEPT !.pos = @ + 1]]
  /\ LockFrame

\* A thread whose Lock of e.mu cannot proceed announces itself: from then on
\* no new reader gets in.
MuWait(t) ==
  /\ Running(t)
  /\ NextCall(t) = LockCall("Lock", "mu")
  /\ ~Acquirable(NextCall(t))
  /\ t \notin locks.muWaiting
  /\ locks' = [locks EXCEPT !.muWaiting = @ \cup {t}]
  /\ UNCHANGED threads
  /\ LockFrame

StartOpStep == \E t \in Threads, op \in Operations : StartOp(t, op)
LockStepAny == \E t \in Threads : LockStep(t)
MuWaitStep == \E t \in Threads : MuWait(t)

InitLock ==
  Init /\ netProto = IPv4 /\ rcvBufSizeMax = MaxRcvBuf /\ ~hasWaiter /\ ~routeRefs.counted

NextLock ==
  \/ StartOpStep
  \/ LockStepAny
  \/ MuWaitStep

SpecLock == InitLock /\ [][NextLock]_vars

\* ================================================================= claims
Registered == state \in {StateBound, StateConnected}

\* The transitions of the state field the life cycle allows.
AllowedEdges == {<<StateInitial, StateBound>>, <<StateInitial, StateConnected>>,
                 <<StateInitial, StateClosed>>, <<StateBound, StateConnected>>,
                 <<StateBound, StateClosed>>, <<StateConnected, StateConnected>>,
                 <<StateConnected, StateBound>>, <<StateConnected, StateInitial>>,
                 <<StateConnected, StateClosed>>}

\* C1: the state starts at INITIAL and, whatever operations, writes, reads and
\* arrivals follow, changes only along INITIAL->BOUND, INITIAL->CONNECTED,
\* INITIAL->CLOSED, BOUND->CONNECTED, BOUND->CLOSED, CONNECTED->CONNECTED,
\* CONNECTED->BOUND, CONNECTED->INITIAL and CONNECTED->CLOSED; no step leaves
\* CLOSED.
C1_StateEdges ==
  /\ state = StateInitial
  /\ [][/\ state' # state => <<state, state'>> \in AllowedEdges
        /\ state = StateClosed => state' = StateClosed]_vars

\* A Write ran on an endpoint that was closed straight from INITIAL (the
\* identifier is still zero), and the endpoint is still CLOSED.
C1_Witness ==
  /\ state = StateClosed
  /\ ID = ZeroID
  /\ ret = Ret("Write", "ErrInvalidEndpointState")

\* The fields and the stack state an illegal operation must leave alone.
Observable == <<epVars, rcvVars, stackVars>>

\* C2: Bind outside INITIAL returns ErrInvalidEndpointState, Connect on a
\* CLOSED endpoint or to port 0 returns ErrInvalidEndpointState, Shutdown in
\* INITIAL or CLOSED returns ErrNotConnected; and none of them changes the
\* state, the identifier, the route, the shutdown flags, the receive flags and
\* queue, the bound port flags or the registry.  (Each operation names itself
\* in ret', so only the steps that do are compared with its relation.)
C2_IllegalOps ==
  [][/\ (state # StateInitial /\ ret'.op = "Bind" /\ BindStep)
          => (ret' = Ret("Bind", "ErrInvalidEndpointState") /\ UNCHANGED Observable)
     /\ (/\ ret'.op = "Connect"
         /\ \E addr \in ConnectInputs, a \in StackAnswers :
              /\ state = StateClosed \/ addr.Port = 0
              /\ ConnectRegister(addr, a.routeOk, a.resOk, a.regOk))
          => (/\ ret' = Ret("Connect", "ErrInvalidEndpointState")
              /\ cpc' = "idle"
              /\ UNCHANGED Observable)
     /\ (state \in {StateInitial, StateClosed} /\ ret'.op = "Shutdown" /\ ShutdownStep)
          => (ret' = Ret("Shutdown", "ErrNotConnected") /\ UNCHANGED Observable)]_vars

\* Bind was refused on an endpoint closed straight from INITIAL: a refused
\* Bind on a bound or connected endpoint would have left a local port.
C2_Witness ==
  /\ state = StateClosed
  /\ ID = ZeroID
  /\ ret = Ret("Bind", "ErrInvalidEndpointState")

\* C3: between operations the route is non-nil exactly when the state is
\* CONNECTED.  Connect installs the route and the state in one step under e.mu,
\* so this holds at every point another thread can observe.
C3_RouteIffConnected == (route # NoRoute) <=> (state = StateConnected)

\* A Disconnect whose re-registration failed: the endpoint is still CONNECTED
\* and keeps its route.
C3_Witness ==
  /\ state = StateConnected
  /\ route # NoRoute
  /\ ret = Ret("Disconnect", "ErrPortInUse")

\* C4 as the specification states it: the byte count of the receive queue
\* never exceeds the capacity.
C4_AtMostCapacity == rcvBufSize <= rcvBufSizeMax

\* C4, amended: a datagram is enqueued only while the byte count is below the
\* capacity, whatever its own size.  So the byte count of the datagrams ahead
\* of the last one enqueued is below the capacity, and the byte count itself
\* may pass the capacity by up to the size of that datagram less one; an empty
\* queue counts 0.
C4_BelowCapacityBeforeLast ==
  IF rcvList = <<>> THEN rcvBufSize = 0
  ELSE rcvBufSize - rcvList[Len(rcvList)].size < rcvBufSizeMax

\* A datagram was enqueued that took the byte count past the capacity.
C4_Witness == rcvList # <<>> /\ rcvBufSize > rcvBufSizeMax

RECURSIVE SumSizes(_)
SumSizes(list) == IF list = <<>> THEN 0 ELSE Head(list).size + SumSizes(Tail(list))

\* C5: the byte count of the receive queue is the sum of the payload sizes of
\* the datagrams in it (so it is 0 exactly when that sum is 0).
C5_ByteCountIsSum == rcvBufSize = SumSizes(rcvList)

\* Datagrams were enqueued and one was read, and datagrams with payload are
\* still queued.
C5_Witness == readLog # <<>> /\ Len(rcvList) >= 2 /\ rcvBufSize > 0

\* C6: Read returns the datagrams in the order HandlePacket enqueued them, and
\* none is lost: the reads so far returned arrivals 1, 2, ... in order, the
\* queue holds the next ones in order, and until Close drains the queue every
\* enqueued datagram is either read or still queued.
C6_Fifo ==
  /\ \A i \in 1..Len(readLog) : readLog[i] = i
  /\ \A i \in 1..Len(rcvList) : rcvList[i].seq = Len(readLog) + i
  /\ state # StateClosed => Len(readLog) + Len(rcvList) = nextSeq

\* Two datagrams were read while another was queued behind them.
C6_Witness == Len(readLog) >= 2 /\ rcvList # <<>>

\* C7 as the specification states it: between operations rcvReady is true
\* exactly when the state is BOUND or CONNECTED and rcvClosed is false.
C7_ReadyIff == MuFree => (rcvReady <=> (Registered /\ ~rcvClosed))

\* C7, amended: rcvReady is true whenever the state is BOUND or CONNECTED, and
\* no step resets it: it stays true when Shutdown(read) or Close sets
\* rcvClosed and when Disconnect returns the endpoint to INITIAL.
C7_ReadySticky ==
  /\ [](Registered => rcvReady)
  /\ [][rcvReady => rcvReady']_vars

\* The read side of a bound endpoint was shut down: rcvReady and rcvClosed
\* are both true.
C7_Witness == state = StateBound /\ rcvReady /\ rcvClosed

\* The registration of the endpoint under its current identifier with the
\* given flags: one entry of the registry for each effective protocol.
CurrentEntries(flags) ==
  SetToBag({RegEntry(RegisterNICID, p, ID, flags) : p \in effectiveNetProtos})

\* C8 as the specification states it: between operations the registry holds
\* exactly the endpoint's one registration, under its current identifier,
\* effective protocols and bound port flags, if the local port is non-zero,
\* and nothing of the endpoint if the local port is zero.
C8_OneEntryIffPort ==
  MuFree => registry = (IF ID.LocalPort # 0 THEN CurrentEntries(boundPortFlags)
                        ELSE EmptyBag)

\* One entry of the registry for each effective protocol, under the current
\* identifier and NIC, and no other entry.
RegisteredOnce ==
  /\ BagCardinality(registry) = Cardinality(effectiveNetProtos)
  /\ \A p \in effectiveNetProtos :
       \E e \in BagToSet(registry) :
         e.nic = RegisterNICID /\ e.netProto = p /\ e.id = ID

\* C8, amended: between operations the registry holds exactly the endpoint's
\* one registration, under its current identifier and effective protocols, if
\* the state is BOUND or CONNECTED, and nothing of the endpoint otherwise
\* (Close keeps the local port in the identifier); and every registration is
\* made under the bound port flags as the registering step leaves them.
C8_OneEntryIffRegistered ==
  /\ [](MuFree => IF Registered THEN RegisteredOnce ELSE registry = EmptyBag)
  /\ [][\A e \in BagToSet(registry') :
          CopiesIn(e, registry') > CopiesIn(e, registry) => e.flags = boundPortFlags']_vars

\* A bound endpoint was closed: the identifier keeps the local port and the
\* registry holds nothing.
C8_Witness == state = StateClosed /\ ID.LocalPort # 0 /\ registry = EmptyBag

\* C9 as the specification states it: a Disconnect that succeeds on a
\* CONNECTED endpoint leaves the route nil; if the endpoint was BOUND before it
\* was connected it is registered again under its local address and port with
\* the remote address and port empty, and the state is BOUND; otherwise its
\* port is released, the local port is 0, the registry holds nothing of it and
\* the state is INITIAL.
C9_Disconnect ==
  [][(state = StateConnected /\ ret' = Ret("Disconnect", NoError) /\ DisconnectStep)
       => /\ route' = NoRoute
          /\ IF preBound
               THEN /\ state' = StateBound
                    /\ ID' = [ZeroID EXCEPT !.LocalAddress = ID.LocalAddress,
                                            !.LocalPort = ID.LocalPort]
                    /\ \E e \in BagToSet(registry') : e.id = ID'
               ELSE /\ state' = StateInitial
                    /\ ID'.LocalPort = 0
                    /\ registry' = EmptyBag
                    /\ ports' = EmptyBag]_vars

\* C10: Connect registers the new identifier before it unregisters the old
\* one.  A BOUND or CONNECTED endpoint is registered under its identifier at
\* every point, also inside Connect; when Connect comes to unregister the old
\* identifier the new one is registered; the registering step takes nothing out
\* of the registry; and a Connect that fails leaves the registry, the state,
\* the identifier, the remote port and the route as they were.
C10_RegisterBeforeUnregister ==
  /\ [](Registered => \E e \in BagToSet(registry) : e.id = ID)
  /\ [](cpc = "connect_commit" =>
          \A p \in clocal.netProtos :
            \E e \in BagToSet(registry) :
              e.id = clocal.id /\ e.netProto = p /\ e.nic = clocal.nicID)
  /\ [][(cpc = "idle" /\ (cpc' = "connect_commit" \/ ret'.op = "Connect")
           /\ ConnectRegisterStep)
          => /\ \A e \in BagToSet(registry) : CopiesIn(e, registry') >= CopiesIn(e, registry)
             /\ cpc' = "idle" => /\ registry' = registry
                                 /\ UNCHANGED <<state, ID, dstPort, route>>]_vars

\* A connected endpoint is inside a second Connect: the new identifier is
\* registered and the old one is still registered.
C10_Witness ==
  /\ cpc = "connect_commit"
  /\ state = StateConnected
  /\ clocal.id # ID
  /\ \E e \in BagToSet(registry) : e.id = ID
  /\ \E e \in BagToSet(registry) : e.id = clocal.id

\* C11: after Close returns, whatever the state before it, the endpoint is
\* CLOSED, its route is nil, the receive list is empty with a byte count of 0
\* and rcvClosed set, the membership set is empty and every group that was in
\* it has been left at the stack, the stack holds no transport-endpoint entry
\* and no port reservation of the endpoint, and the waiters have been
\* notified with HUp | Err | In | Out.
C11_CloseReleasesAll ==
  [][Close => /\ state' = StateClosed
              /\ route' = NoRoute
              /\ rcvList' = <<>> /\ rcvBufSize' = 0 /\ rcvClosed'
              /\ multicastMemberships' = {}
              /\ \A mem \in multicastMemberships : ~BagIn(mem, joined')
              /\ registry' = EmptyBag
              /\ ports' = EmptyBag
              /\ notified' = {EventHUp, EventErr, EventIn, EventOut}]_vars

\* C12: Close on an endpoint that is already CLOSED is a no-op: the endpoint's
\* variables, the registry, the port reservations and the memberships are the
\* same before and after, and no unregister, port release or LeaveGroup call
\* is made.
C12_CloseClosedNoOp ==
  [][Close /\ state = StateClosed
       => /\ UNCHANGED <<epVars, rcvVars, lastError, stackVars, multicastMemberships, joined>>
          /\ calls'.made = {}]_vars

\* C12 as amended: Close on a CLOSED endpoint leaves the endpoint's
\* variables, the registry and the port reservations alone and makes no
\* unregister or port release call; it calls LeaveGroup for exactly the
\* memberships added since the endpoint was closed and empties the set, so it
\* is a no-op when the set is empty, as it is when Close follows Close.
C12_CloseClosedLeavesOnlyGroups ==
  [][Close /\ state = StateClosed
       => /\ UNCHANGED <<epVars, rcvVars, lastError, stackVars>>
          /\ calls'.made = {StackCall("LeaveGroup", mem) : mem \in multicastMemberships}
          /\ multicastMemberships' = {}
          /\ multicastMemberships = {} => joined' = joined]_vars

\* Close was the last call to act, it found the endpoint closed and made no
\* call: the endpoint had been bound, and the Close that closed it
\* unregistered it.
C12_Witness ==
  /\ state = StateClosed
  /\ ID.LocalPort # 0
  /\ calls = Calls("Close", {})

\* A step of Read, and a step that starts a Write (it returns at once or
\* moves on to the implicit bind or the transmission).
ReadActs == ret'.op = "Read" /\ Read
WriteStarts ==
  /\ wpc[OneWriter] = "idle"
  /\ wpc'[OneWriter] # "idle" \/ (ret'.op = "Write" /\ WriteBeginStep)
Refused(op) == Ret(op, "ErrConnectionRefused")

\* C13: the last-error slot is read and cleared.  A port-unreachable signal
\* handled while CONNECTED latches connection-refused; the next Read or Write
\* to start returns it and empties the slot, and a Read or Write that starts
\* with the slot empty does not return it, so any number of signals before
\* the first Read or Write yields exactly one connection-refused result.
C13_ReadAndClear ==
  [][/\ HandleControlPacket("ControlPortUnreachable") /\ state = StateConnected
          => lastError' = "ErrConnectionRefused"
     /\ ReadActs
          => IF lastError = "ErrConnectionRefused"
               THEN ret' = Refused("Read") /\ lastError' = NoError
               ELSE ret' # Refused("Read") /\ lastError' = lastError
     /\ WriteStarts
          => IF lastError = "ErrConnectionRefused"
               THEN ret' = Refused("Write") /\ wpc' = wpc /\ lastError' = NoError
               ELSE (wpc' # wpc \/ ret' # Refused("Write")) /\ lastError' = lastError]_vars

\* A Read has returned connection-refused on a connected endpoint and the
\* slot is empty again.
C13_Witness ==
  /\ state = StateConnected
  /\ ret = Refused("Read")
  /\ lastError = NoError

\* Once the receive side is closed it stays closed and nothing is enqueued:
\* the queue only loses datagrams, from its head.
ClosedQueueOnlyDrains ==
  rcvClosed => /\ rcvClosed'
               /\ nextSeq' = nextSeq
               /\ rcvList' \in {rcvList, IF rcvList = <<>> THEN <<>> ELSE Tail(rcvList), <<>>}

\* C14: after a successful Shutdown(read) the Reads return the datagrams
\* that were queued, in order, and once the queue is empty every Read returns
\* closed-for-receive, never would-block; no datagram that arrives after the
\* shutdown is returned.
C14_ReadsAfterShutdown ==
  [][/\ ClosedQueueOnlyDrains
     /\ ReadActs /\ rcvClosed
          => IF rcvList # <<>>
               THEN /\ ret' = Ret("Read", NoError)
                    /\ readLog' = Append(readLog, Head(rcvList).seq)
                    /\ rcvList' = Tail(rcvList)
               ELSE ret' = Ret("Read", "ErrClosedForReceive")]_vars

\* C14 as amended: the same for every Read that finds no pending last error;
\* a Read that finds one returns it, clears it and leaves the queue alone.
C14_ReadsAfterShutdownNoError ==
  [][/\ ClosedQueueOnlyDrains
     /\ ReadActs /\ rcvClosed
          => IF lastError # NoError
               THEN /\ ret' = Ret("Read", lastError)
                    /\ lastError' = NoError
                    /\ UNCHANGED <<rcvList, readLog>>
             ELSE IF rcvList # <<>>
               THEN /\ ret' = Ret("Read", NoError)
                    /\ readLog' = Append(readLog, Head(rcvList).seq)
                    /\ rcvList' = Tail(rcvList)
               ELSE ret' = Ret("Read", "ErrClosedForReceive")]_vars

\* A shut-down endpoint (not a closed one) whose queued datagram was read and
\* whose last Read returned closed-for-receive.
C14_Witness ==
  /\ Registered
  /\ rcvClosed
  /\ readLog # <<>>
  /\ rcvList = <<>>
  /\ ret = Ret("Read", "ErrClosedForReceive")

\* The write side, once shut down, stays shut down.
ShutdownWriteSticky == ShutdownWrite \in shutdownFlags => ShutdownWrite \in shutdownFlags'

\* C15: after a successful Shutdown(write) every Write that starts returns
\* closed-for-send and hands no packet to the route.  (On a BOUND or
\* CONNECTED endpoint the flag can only come from such a Shutdown.)
C15_WriteAfterShutdown ==
  [][/\ ShutdownWriteSticky
     /\ WriteStarts /\ Registered /\ ShutdownWrite \in shutdownFlags
          => wpc'[OneWriter] = "idle" /\ ret' = Ret("Write", "ErrClosedForSend")]_vars

\* C15 as amended: every such Write fails and hands no packet to the route;
\* it returns the pending last error if there is one, else
\* invalid-option-value if it asks for More, else closed-for-send.
C15_WriteAfterShutdownFails ==
  [][/\ ShutdownWriteSticky
     /\ WriteStarts /\ ShutdownWrite \in shutdownFlags
          => /\ wpc'[OneWriter] = "idle"
             /\ \A to \in WriteInputs, a \in WriteAnswers :
                  WriteBegin(OneWriter, to, a.more, a.routeOk, a.preErr)
                    => ret' = Ret("Write", IF lastError # NoError THEN lastError
                                           ELSE IF a.more THEN "ErrInvalidOptionValue"
                                           ELSE "ErrClosedForSend")]_vars

\* A Write on a shut-down endpoint (not a closed one) returned closed-for-send.
C15_Witness ==
  /\ Registered
  /\ ShutdownWrite \in shutdownFlags
  /\ wpc[OneWriter] = "idle"
  /\ ret = Ret("Write", "ErrClosedForSend")

\* C16: the membership set is exactly the set of (NIC, group) pairs joined
\* with a successful JoinGroup and not yet left with a successful LeaveGroup.
C16_SetIsJoinedNotLeft ==
  /\ multicastMemberships = BagToSet(joined)
  /\ \A mem \in BagToSet(joined) : CopiesIn(mem, joined) = 1

\* A step that changes the set and the joined groups by the same one pair,
\* or changes neither.
SetFollowsGroups ==
  \/ UNCHANGED <<multicastMemberships, joined>>
  \/ \E mem \in BagToSet(joined') \ multicastMemberships :
       /\ multicastMemberships' = multicastMemberships \cup {mem}
       /\ joined' = JoinGroup(joined, mem)
  \/ \E mem \in multicastMemberships :
       /\ multicastMemberships' = multicastMemberships \ {mem}
       /\ joined' = LeaveGroup(joined, mem)

\* A membership option has called the stack and returned the call's error.
FailedGroupCall ==
  /\ ret'.op \in {"AddMembership", "RemoveMembership"}
  /\ calls'.op = ret'.op
  /\ <<ret, calls>>' # <<ret, calls>>
  /\ calls'.made # {}
  /\ ret'.err # NoError

\* C16 as amended: every operation but Close changes the set exactly as the
\* successful JoinGroup and LeaveGroup calls go (a failed JoinGroup adds
\* nothing, a failed LeaveGroup removes nothing), so every member is a joined
\* group; Close calls LeaveGroup for every member, drops the results and
\* empties the set.
C16_SetFollowsGroupsUntilClose ==
  /\ multicastMemberships \subseteq BagToSet(joined)
  /\ [][/\ multicastMemberships' \subseteq BagToSet(joined')
        /\ SetFollowsGroups \/ Close
        /\ calls'.op = "Close" /\ Close
             => /\ multicastMemberships' = {}
                /\ \A mem \in multicastMemberships :
                     StackCall("LeaveGroup", mem) \in calls'.made
        /\ FailedGroupCall => UNCHANGED <<multicastMemberships, joined>>]_vars

\* LeaveGroup failed for a member, which is still in the set, next to
\* another member.
C16_Witness ==
  /\ calls.op = "RemoveMembership"
  /\ calls.made \cap {StackCall("LeaveGroup", mem) : mem \in multicastMemberships} # {}
  /\ ret = Ret("RemoveMembership", "ErrUnknownNICID")
  /\ Cardinality(multicastMemberships) = 2

\* The (NIC, group) pair a membership option names: an interface address
\* that is empty or all zeros is not set, and then the option's NIC, or the
\* NIC of a route to the group, is meant.
OptionPair(v, routeOk) ==
  multicastMembership(membershipNIC(v, v.InterfaceAddr \in {AnyAddr, IPv4Any}, routeOk),
                      v.MulticastAddr)
NamesPair(v, routeOk) ==
  IsMulticastAddress(v.MulticastAddr) /\ OptionPair(v, routeOk).nicID # 0

\* C17: joining a pair that is in the membership set returns port-in-use and
\* removing a pair that is not in it returns bad-local-address, the set
\* staying as it is and no JoinGroup or LeaveGroup call reaching the stack;
\* joining an absent pair and removing a present one succeed when the stack
\* agrees, so join, join, remove, remove on one pair yields success,
\* port-in-use, success, bad-local-address.
C17_DuplicateAndAbsent ==
  [][ret'.op \in {"AddMembership", "RemoveMembership"}
       => \A v \in MembershipInputs :
            \A routeOk \in RouteAnswers(v), ok \in BOOL :
              LET mem == OptionPair(v, routeOk)
                  refused(op, err) == /\ ret' = Ret(op, err)
                                      /\ calls'.made = {}
                                      /\ UNCHANGED <<multicastMemberships, joined>>
              IN NamesPair(v, routeOk)
                   => /\ AddMembership(v, routeOk, ok) /\ mem \in multicastMemberships
                           => refused("AddMembership", "ErrPortInUse")
                      /\ RemoveMembership(v, routeOk, ok) /\ mem \notin multicastMemberships
                           => refused("RemoveMembership", "ErrBadLocalAddress")
                      /\ AddMembership(v, routeOk, TRUE) /\ mem \notin multicastMemberships
                           => /\ ret' = Ret("AddMembership", NoError)
                              /\ multicastMemberships' = multicastMemberships \cup {mem}
                      /\ RemoveMembership(v, routeOk, TRUE) /\ mem \in multicastMemberships
                           => /\ ret' = Ret("RemoveMembership", NoError)
                              /\ multicastMemberships' = multicastMemberships \ {mem}]_vars

\* C18: the event set Readiness(mask) returns is a subset of mask, for every
\* mask and every state of the endpoint.
C18_ResultWithinMask ==
  polled.pc = "done" => polled.result \subseteq polled.mask

\* C18 as amended: the readable and the writable bit are returned only if
\* the mask asks for them; the error bit is returned exactly when the
\* last-error slot is found non-empty, whether or not the mask asks for it;
\* no other bit is returned.
C18_ResultWithinMaskOrErr ==
  [][/\ polled'.pc = "done" => polled'.result \subseteq (polled'.mask \cup {EventErr})
     /\ ReadinessEnd => (EventErr \in polled'.result <=> lastError # NoError)]_vars

\* Readiness has returned the error bit to a caller that did not ask for it.
C18_Witness ==
  /\ polled.pc = "done"
  /\ EventErr \in polled.result \ polled.mask
  /\ EventIn \in polled.result

\* C19: in Write the writing thread holds the endpoint lock neither shared
\* nor exclusive when the packet is handed to the route, on every path
\* including the one that bound the endpoint implicitly; and when Write has
\* returned the lock is not held, and it was never unlocked by a thread that
\* did not hold it nor locked by one that did.
C19_WriteLockReleased ==
  \A w \in Writers :
    /\ wpc[w] = "send" => wmu[w].held = "none"
    /\ wpc[w] = "idle" => wmu[w].held = "none"
    /\ ~wmu[w].fault

\* Write has bound the endpoint implicitly and is about to transmit: no
\* operation has returned yet, so nothing else can have bound the endpoint.
C19_Witness ==
  /\ wpc[OneWriter] = "send"
  /\ wlocal[OneWriter].lockReleased
  /\ state = StateBound
  /\ ret.op = "none"

Rank(lock) == CASE lock = "mu" -> 1 [] lock = "rcvMu" -> 2 [] lock = "lastErrorMu" -> 3

\* A running thread whose next call is a lock it cannot get.
Blocked(t) == Running(t) /\ ~Acquirable(NextCall(t))

\* C20: locks are acquired in the order endpoint lock, receive lock,
\* last-error lock: a thread about to acquire a lock holds no lock of the
\* same or a later rank; and the running threads are never all blocked on a
\* lock.
C20_LockOrderAndNoDeadlock ==
  /\ \A t \in Threads :
       Running(t) /\ NextCall(t).act \in {"Lock", "RLock"}
         => \A h \in Holds(t) : Rank(h) < Rank(NextCall(t).lock)
  /\ (\E t \in Threads : Running(t)) => \E t \in Threads : Running(t) /\ ~Blocked(t)

\* One thread holds the endpoint lock and the receive lock, a second one
\* holds the last-error lock, and the third waits for the endpoint lock,
\* announced as a writer.
C20_Witness ==
  /\ \E t \in Threads : Holds(t) = {"mu", "rcvMu"}
  /\ \E t \in Threads : Holds(t) = {"lastErrorMu"}
  /\ \E t \in Threads : Blocked(t) /\ t \in locks.muWaiting


\* HandlePacket has taken a datagram past validation.
ValidatedArrives == stats'.PacketsReceived # stats.PacketsReceived

\* C21: a datagram that passes validation is enqueued iff the queue is ready,
\* not closed, and the byte count is below the capacity.  One rejected for
\* capacity adds exactly one to ReceiveBufferOverflow, one rejected because
\* the queue is not ready or closed adds exactly one to ClosedReceiver, and
\* both leave the receive list and the byte count alone; the two counters
\* change in no other step, so each equals the number of such drops.
C21_EnqueueOrCount ==
  [][LET open == rcvReady /\ ~rcvClosed
         room == rcvBufSize < rcvBufSizeMax
         closedBy == stats'.ClosedReceiver - stats.ClosedReceiver
         overflowBy == stats'.ReceiveBufferOverflow - stats.ReceiveBufferOverflow
     IN IF ValidatedArrives
          THEN /\ stats'.PacketsReceived = stats.PacketsReceived + 1
               /\ (open /\ room) <=> (Len(rcvList') = Len(rcvList) + 1)
               /\ (open /\ room) => closedBy = 0 /\ overflowBy = 0
               /\ (open /\ ~room) => /\ overflowBy = 1 /\ closedBy = 0
                                     /\ UNCHANGED <<rcvList, rcvBufSize>>
               /\ ~open => /\ closedBy = 1 /\ overflowBy = 0
                           /\ UNCHANGED <<rcvList, rcvBufSize>>
          ELSE closedBy = 0 /\ overflowBy = 0]_vars

\* Datagrams have been dropped for capacity and by a closed receiver, and
\* one is queued.
C21_Witness ==
  /\ stats.ReceiveBufferOverflow >= 1
  /\ stats.ClosedReceiver >= 1
  /\ stats.PacketsReceived >= 3
  /\ rcvList # <<>>


\* C22: every write of the endpoint state (in Bind, the implicit bind of
\* Write, Connect, Disconnect and Close) is made by a thread that holds the
\* endpoint lock exclusively.
C22_StateStoredUnderExclusiveLock ==
  \A t \in Threads :
    Running(t) /\ NextCall(t) = setEndpointState => locks.muWriter = t

\* A Write is about to store the state in its implicit bind, holding the
\* endpoint lock exclusively, while a second Write waits for the shared lock
\* and a third thread handles a packet under the receive lock.
C22_Witness ==
  \E t, u, v \in Threads :
    /\ threads[t].op = "WriteBind" /\ NextCall(t) = setEndpointState
    /\ locks.muWriter = t
    /\ threads[u].op = "Write" /\ Blocked(u)
    /\ locks.rcvMu = v


\* C23: every read and every write of the receive buffer capacity is made by
\* a thread that holds the receive lock, so no write of the capacity runs
\* next to a read of it.
C23_CapacityUnderReceiveLock ==
  /\ \A t \in Threads :
       Running(t) /\ NextCall(t).lock = "rcvBufSizeMax" => locks.rcvMu = t
  /\ \A t, u \in Threads :
       ~(/\ Running(t) /\ NextCall(t) = StoreRcvBufSizeMax
         /\ Running(u) /\ NextCall(u) = LoadRcvBufSizeMax)


\* Writer w leaves the exclusive section of prepareForWrite.
LeavesUpgrade(w) == wpc[w] = "upgrade" /\ wpc'[w] # "upgrade"
\* Writer w, who found the endpoint INITIAL, takes its second look.
LeavesRetry(w) == wpc[w] = "retry" /\ wpc'[w] # "retry"
Returns(w, err) == wpc'[w] = "idle" /\ ret' = Ret("Write", err)

\* In the exclusive section the writer binds only if the state is still
\* INITIAL; the state never comes back to INITIAL; and a step that makes
\* the endpoint BOUND starts from INITIAL with no reservation and no
\* registration and leaves one of each: at most one bind is performed.
RecheckAndBindOnce ==
  /\ \A w \in Writers :
       LeavesUpgrade(w) /\ state # StateInitial
         => wpc'[w] = "retry" /\ UNCHANGED <<epVars, stackVars>>
  /\ state # StateInitial => state' # StateInitial
  /\ state' = StateBound /\ state # StateBound
       => /\ state = StateInitial
          /\ ports = EmptyBag /\ registry = EmptyBag
          /\ BagCardinality(ports') = 1 /\ BagCardinality(registry') = 1

\* Every Write that has started returns.
WriteTerminates == \A w \in Writers : (wpc[w] # "idle") ~> (wpc[w] = "idle")

Reentered(t) ==
  /\ threads[t].op \in {"WriteLoopbackPacket", "WriteLoopbackControl"}
  /\ threads[t].pos > Len(writeLocks(FALSE, FALSE))

Holder(lock) == IF lock = "rcvMu" THEN locks.rcvMu ELSE locks.lastErrorMu

C26_NotifyIffListWasEmpty ==
  [][nextSeq' # nextSeq
       => IF rcvList = <<>> THEN notified' = {EventIn} ELSE notified' = notified]_vars


\* The entries of a bag of which a step takes a copy away.
Removed(bag, after) == {x \in BagToSet(bag) : CopiesIn(x, after) < CopiesIn(x, bag)}

\* The flags a step's UnregisterTransportEndpoint and ReleasePort calls
\* carry: Connect's oldPortFlags; in Disconnect's re-registering branch the
\* bound flags read again after registerWithStack; in registerWithStack's
\* failure path, which leaves the state as it is, the port flags just
\* copied into the bound flags; the bound flags in Close and in Disconnect's
\* other branch.
IssuedFlags ==
  IF cpc = "connect_commit" THEN clocal.oldPortFlags
  ELSE IF state = StateConnected /\ state' = StateBound THEN boundPortFlags'
  ELSE IF state' = state THEN portFlags
  ELSE boundPortFlags

\* C27: a reuse-address or reuse-port toggle leaves the registry, the port
\* reservations and the bound port flags as they are, and every registry
\* entry or port reservation a later step removes carries exactly the flags
\* that step's unregister or release call is issued with.
C27_RemovedWithOwnFlags ==
  [][/\ portFlags' # portFlags => UNCHANGED <<registry, ports, boundPortFlags>>
     /\ \A x \in Removed(registry, registry') : x.flags = IssuedFlags
     /\ \A x \in Removed(ports, ports') : x.flags = IssuedFlags]_vars


\* C28: when a Write without destination transmits, the route it took from
\* e.route under the shared lock has not been released by a Close, a
\* Disconnect or a Connect that ran since the lock was given up.
C28_TransmitOnLiveRoute ==
  [][\A w \in Writers :
       wpc[w] = "send" /\ wpc'[w] = "idle" /\ wlocal[w].to = NoTo
         => wlocal[w].routeId \notin routeRefs.released]_vars


\* C29: a step that replaces or drops the route e.route holds releases that
\* route, and once the endpoint is closed every route cloned for e.route
\* has been released.
C29_StoredRouteReleased ==
  /\ [][routeRefs.stored # 0 /\ routeRefs'.stored # routeRefs.stored
          => routeRefs.stored \in routeRefs'.released]_vars
  /\ [](state = StateClosed => routeRefs.released = 1..routeRefs.cloned)


\* C30: a Connect or a Disconnect that fails on an endpoint that is BOUND or
\* CONNECTED leaves the port reservations and the bound port flags as they
\* were, and at all times the port of every registry entry of the endpoint
\* is reserved.
C30_FailedRegistrationKeepsPort ==
  /\ [][/\ state \in {StateBound, StateConnected}
        /\ state' = state
        /\ cpc = "idle" /\ cpc' = "idle"
        /\ ret'.op \in {"Connect", "Disconnect"}
        /\ ret'.err # NoError
        => ports' = ports /\ boundPortFlags' = boundPortFlags]_vars
  /\ [](\A e \in BagToSet(registry) :
          \E p \in BagToSet(ports) : p.port = e.id.LocalPort)


\* A Read returns the pending error in this step.
ReadReturnsError ==
  lastError # NoError /\ lastError' = NoError /\ ret' = Ret("Read", lastError)

\* C31: a Read that returns the pending error leaves the receive list, the
\* byte count and the record of the datagrams read as they were, and every
\* Read that returns a datagram returns the one at the head of the list, so
\* the datagrams queued at the error are read next and in their order.
C31_ErrorReadKeepsQueue ==
  [][/\ ReadReturnsError
          => rcvList' = rcvList /\ rcvBufSize' = rcvBufSize /\ readLog' = readLog
     /\ readLog' # readLog
          => /\ rcvList # <<>>
             /\ readLog' = Append(readLog, Head(rcvList).seq)
             /\ rcvList' = Tail(rcvList)]_vars

\* A Read has just returned the pending error with two datagrams queued and
\* one read before.
C31_Witness ==
  /\ ret = Ret("Read", "ErrConnectionRefused")
  /\ lastError = NoError
  /\ Len(rcvList) >= 2
  /\ readLog # <<>>
====
